---- MODULE Spec2Model ----
(***************************************************************************)
(* A model of the FACT0RN consensus core: the factorisation proof of work  *)
(* (pow.cpp), the script big integer (script/bignum.h), the deadpool       *)
(* integer rules (deadpool/deadpool.cpp), the announcement database        *)
(* (deadpool/announcedb.cpp) and the deadpool index (index/deadpoolindex). *)
(*                                                                         *)
(* Each component has a specification of its own (SpecPow, SpecBignum,     *)
(* ...).  A component that is idle in a specification keeps its variables  *)
(* at their idle value.                                                    *)
(***************************************************************************)
EXTENDS Integers, Sequences, FiniteSets, TLC

VARIABLES
    hdr,        \* pow: the block header handed to CheckProofOfWork
    powResult,  \* pow: "none" before the call, then what the call did
    bnOp,       \* bignum: "none", "int" (built from an int64) or "bytes"
    bnInt,      \* bignum: the int64 a CScriptBignum was built from
    bnEnc,      \* bignum: the byte vector (given, or Serialize of bnInt)
    bnDec,      \* bignum: CScriptBignum(bnEnc): [value, valid]
    bnReenc,    \* bignum: bnDec.Serialize()
    txo,        \* deadpool: the output under CheckTxOutDeadpoolIntegers
    dpReason,   \* deadpool: "none", "ok" or the reject reason
    annNet,     \* announcedb: the network whose consensus parameters apply
    annTip,     \* announcedb: the height of the active chain's tip
    annBlocks,  \* announcedb: the connected blocks of heights 1..AnnLow
    annDb,      \* announcedb: the database, key -> CClaimValue
    annUndo,    \* announcedb: the database as it was before each of annBlocks
    annQuery,   \* announcedb: the last operation, and the result of a query
    idxChain,   \* index: the blocks the index has connected, genesis first
    idxDb,      \* index: the database, serialized key -> value
    idxOp,      \* index: the last operation, "none", "connect" or "rewind"
    rtNet,      \* retarget: the network whose consensus parameters apply
    rtHeight,   \* retarget: the height of the tip
    rtPeriod,   \* retarget: the block indexes from the last multiple of the
                \*   adjustment interval up to the tip, [nBits, nTime] each
    rtPlan,     \* retarget: the timestamps the miners give this period
    rtLast,     \* retarget: the last call and what it returned
    ghIn,       \* gHash: the derived buffer and the nBits of the header
    ghW,        \* gHash: whether gHash was called, and the W it returned
    pfLo,       \* chain work: a block index, and the GetBlockProof of it
    pfHi,       \* chain work: a block index with an nP1 at least as long, and its proof
    scN,        \* the bytes of N pushed into the script under test
    scHash,     \* the 32 bytes of the claim hash pushed into it
    scRes,      \* what the deadpool parsers returned for that script
    ghRun,      \* the calls of gHash under way, each with its header and its local buffers
    rpcAnn,     \* the last announcedeadpoolclaim call and what it returned
    rpcClaim,   \* the last claimdeadpooltxs or claimdeadpoolid call and what it returned
    wbRun,      \* the WriteBlock the index thread is in, and the height it is synced to
    amtV,       \* the CAmount handed to MoneyRange
    amtOk,      \* what MoneyRange returned
    cpSrc,      \* the CScriptBignum that is copied or returned
    cpDst,      \* the object the copy constructor was run on
    cpOp,       \* the last operation on the two objects
    cpRun,      \* whether the process still runs
    brIter,     \* one iteration of gHash's inner loop: the buffer before it and after it
    tcCall      \* the truncation step of one gHash call: its nBits, the bytes of w it touched and how it ended

powVars == <<hdr, powResult>>
bnVars == <<bnOp, bnInt, bnEnc, bnDec, bnReenc>>
dpVars == <<txo, dpReason>>
annVars == <<annNet, annTip, annBlocks, annDb, annUndo, annQuery>>
idxVars == <<idxChain, idxDb, idxOp>>
rtVars == <<rtNet, rtHeight, rtPeriod, rtPlan, rtLast>>
ghVars == <<ghIn, ghW>>
pfVars == <<pfLo, pfHi>>
scVars == <<scN, scHash, scRes>>
grVars == <<ghRun>>
rpcVars == <<rpcAnn, rpcClaim>>
wbVars == <<wbRun>>
amtVars == <<amtV, amtOk>>
cpVars == <<cpSrc, cpDst, cpOp, cpRun>>
brVars == <<brIter>>
tcVars == <<tcCall>>
vars ==
    <<hdr, powResult, bnOp, bnInt, bnEnc, bnDec, bnReenc, txo, dpReason,
      annNet, annTip, annBlocks, annDb, annUndo, annQuery,
      idxChain, idxDb, idxOp, rtNet, rtHeight, rtPeriod, rtPlan, rtLast,
      ghIn, ghW,
      pfLo, pfHi,
      scN, scHash, scRes,
      ghRun,
      rpcAnn, rpcClaim,
      wbRun,
      amtV, amtOk,
      cpSrc, cpDst, cpOp, cpRun,
      brIter,
      tcCall>>

\* The variables of the other components.
exceptPow == <<bnVars, dpVars, annVars, idxVars, rtVars, ghVars, pfVars, scVars, grVars, rpcVars, wbVars, amtVars, cpVars, brVars, tcVars>>
exceptBignum == <<powVars, dpVars, annVars, idxVars, rtVars, ghVars, pfVars, scVars, grVars, rpcVars, wbVars, amtVars, cpVars, brVars, tcVars>>
exceptDeadpool == <<powVars, bnVars, annVars, idxVars, rtVars, ghVars, pfVars, scVars, grVars, rpcVars, wbVars, amtVars, cpVars, brVars, tcVars>>
exceptAnnounce == <<powVars, bnVars, dpVars, idxVars, rtVars, ghVars, pfVars, scVars, grVars, rpcVars, wbVars, amtVars, cpVars, brVars, tcVars>>
exceptIndex == <<powVars, bnVars, dpVars, annVars, rtVars, ghVars, pfVars, scVars, grVars, rpcVars, wbVars, amtVars, cpVars, brVars, tcVars>>
exceptRetarget == <<powVars, bnVars, dpVars, annVars, idxVars, ghVars, pfVars, scVars, grVars, rpcVars, wbVars, amtVars, cpVars, brVars, tcVars>>
exceptGHash == <<powVars, bnVars, dpVars, annVars, idxVars, rtVars, pfVars, scVars, grVars, rpcVars, wbVars, amtVars, cpVars, brVars, tcVars>>
exceptProof == <<powVars, bnVars, dpVars, annVars, idxVars, rtVars, ghVars, scVars, grVars, rpcVars, wbVars, amtVars, cpVars, brVars, tcVars>>
exceptScript == <<powVars, bnVars, dpVars, annVars, idxVars, rtVars, ghVars, pfVars, grVars, rpcVars, wbVars, amtVars, cpVars, brVars, tcVars>>
exceptGRun == <<powVars, bnVars, dpVars, annVars, idxVars, rtVars, ghVars, pfVars, scVars, rpcVars, wbVars, amtVars, cpVars, brVars, tcVars>>
exceptRpc == <<powVars, bnVars, dpVars, annVars, idxVars, rtVars, ghVars, pfVars, scVars, grVars, wbVars, amtVars, cpVars, brVars, tcVars>>
exceptWrites == <<powVars, bnVars, dpVars, annVars, rtVars, ghVars, pfVars, scVars, grVars, rpcVars, amtVars, cpVars, brVars, tcVars>>
exceptAmount == <<powVars, bnVars, dpVars, annVars, idxVars, rtVars, ghVars, pfVars, scVars, grVars, rpcVars, wbVars, cpVars, brVars, tcVars>>
exceptCopy == <<powVars, bnVars, dpVars, annVars, idxVars, rtVars, ghVars, pfVars, scVars, grVars, rpcVars, wbVars, amtVars, brVars, tcVars>>
exceptBranch == <<powVars, bnVars, dpVars, annVars, idxVars, rtVars, ghVars, pfVars, scVars, grVars, rpcVars, wbVars, amtVars, cpVars, tcVars>>
exceptTrunc == <<powVars, bnVars, dpVars, annVars, idxVars, rtVars, ghVars, pfVars, scVars, grVars, rpcVars, wbVars, amtVars, cpVars, brVars>>

(***************************************************************************)
(* Arithmetic helpers.                                                     *)
(***************************************************************************)
Abs(x) == IF x < 0 THEN -x ELSE x

Max(a, b) == IF a > b THEN a ELSE b

Min(a, b) == IF a <= b THEN a ELSE b

Pow2(k) == 2 ^ k

\* Number of bits of a natural number, 0 for 0.
RECURSIVE BitLen(_)
BitLen(n) == IF n = 0 THEN 0 ELSE 1 + BitLen(n \div 2)

\* mpz_sizeinbase(x, 2): the bits of |x|, and 1 when x is 0.
SizeInBase2(x) == IF x = 0 THEN 1 ELSE BitLen(Abs(x))

\* mpz_tdiv_q: the quotient truncated towards zero (d # 0).
TDivQ(n, d) == IF n >= 0 THEN n \div d ELSE -((-n) \div d)

IsPrime(n) == n > 1 /\ \A d \in 2..(n - 1) : n % d # 0

\* mpz_probab_prime_p(n, reps) # 0.  For the operands of this model (below
\* 10^6) GMP decides by trial division, whatever reps is, and it tests |n|.
ProbabPrime(n, reps) == IsPrime(Abs(n))

ByteAt(x, i) == (x \div (256 ^ i)) % 256

SetBit(x, k) == IF (x \div Pow2(k)) % 2 = 1 THEN x ELSE x + Pow2(k)

(***************************************************************************)
(* Consensus parameters (CMainParams).                                     *)
(***************************************************************************)
MillerRabinRounds == 50

(***************************************************************************)
(* Proof of work: gHash's truncation step and CheckProofOfWork.            *)
(***************************************************************************)
\* Bounds of the headers explored.
MaxBits == 6
OffSpan == 8

\* A gHash truncation that leaves the top bit as the hash gave it: what C12
\* rules out.
gHashTopBitAsHashed(derived, nBits) ==
    LET allBytes == nBits \div 8
        remBytes == nBits % 8
        w0       == derived % (256 ^ Min(128, allBytes + 1))
        top      == ByteAt(w0, allBytes)
    IN  w0 - top * (256 ^ allBytes) + (top % Pow2(remBytes)) * (256 ^ allBytes)


\* gHash: the scrypt / hash-cocktail rounds leave a 2048-bit buffer that
\* depends on the header's hashed fields only; it is the header field
\* `derived` of the model.  The truncation step is computed as the code does.
gHash(derived, nBits) ==
    LET allBytes == nBits \div 8
        remBytes == nBits % 8
        ncopy    == Min(128, allBytes + 1)
        w0       == derived % (256 ^ ncopy)
        top      == ByteAt(w0, allBytes)
        w1       == w0 - top * (256 ^ allBytes)
                       + (top % Pow2(remBytes)) * (256 ^ allBytes)
    IN  IF remBytes = 0
        THEN SetBit(w1, 8 * (allBytes - 1) + 7)
        ELSE SetBit(w1, 8 * allBytes + (remBytes - 1))

\* CheckProofOfWork(block, params): "true", "false", or "SIGFPE" when GMP
\* is asked to divide by zero (mpz_tdiv_q raises SIGFPE and the node dies).
CheckProofOfWork(block) ==
    LET W          == gHash(block.derived, block.nBits)
        abs_offset == IF block.wOffset > 0 THEN block.wOffset ELSE -block.wOffset
        n          == IF block.wOffset >= 0 THEN W + abs_offset ELSE W - abs_offset
        nP1        == block.nP1
        nP2        == TDivQ(n, nP1)
        nP1_bitsize      == SizeInBase2(nP1)
        expected_bitsize == (block.nBits \div 2) + (block.nBits % 2)
    IN  IF abs_offset > 16 * block.nBits THEN "false"
        ELSE IF SizeInBase2(n) # block.nBits THEN "false"
        ELSE IF nP1 = 0 THEN "SIGFPE"
        ELSE IF nP1_bitsize # expected_bitsize THEN "false"
        ELSE IF nP1 * nP2 # n THEN "false"
        ELSE IF nP1 > nP2 THEN "false"
        ELSE IF ~ProbabPrime(nP1, MillerRabinRounds)
                \/ ~ProbabPrime(nP2, MillerRabinRounds) THEN "false"
        ELSE "true"

Offsets(nBits) ==
    {-(16 * nBits) - 1, -(16 * nBits), 16 * nBits, 16 * nBits + 1}
        \cup ((-OffSpan)..OffSpan)

\* The hashed fields of a header fix gHash's buffer; a block template is a
\* header whose offset and factor the miner has yet to fill in.
Templates ==
    { [nBits |-> b, derived |-> d, wOffset |-> 0, nP1 |-> 0] :
        b \in 1..MaxBits, d \in 0..(Pow2(MaxBits) - 1) }

\* A header arrives with any offset and any factor (nP1 is an unsigned
\* 1024-bit field, 0 included) and the validation thread checks it.
CheckPoW ==
    /\ powResult = "none"
    /\ \E o \in Offsets(hdr.nBits), p \in 0..Pow2((MaxBits + 1) \div 2) :
          LET block == [hdr EXCEPT !.wOffset = o, !.nP1 = p]
          IN  /\ hdr' = block
              /\ powResult' = CheckProofOfWork(block)
    /\ UNCHANGED exceptPow

(***************************************************************************)
(* CScriptBignum (script/bignum.h).  An mpz_t is a sign and a magnitude:   *)
(* [neg, mag], mag the little-endian bytes of |x| without leading zero     *)
(* bytes (<<>> for 0), as GMP keeps its limbs normalised.                  *)
(***************************************************************************)
(***************************************************************************)
(* gHash's truncation step on longer buffers: nBits up to MaxGBits, and    *)
(* derived buffers of three bytes.                                         *)
(***************************************************************************)
MaxGBits == 15

\* Bytes of the derived buffer: none, the low, the high and every other bit.
GByteVals == {0, 1, 127, 128, 170, 255}

GHashInputs ==
    { [derived |-> b0 + (256 * b1) + (65536 * b2), nBits |-> n] :
        b0 \in GByteVals, b1 \in GByteVals, b2 \in GByteVals, n \in 1..MaxGBits }

IdleGHash == [derived |-> 0, nBits |-> 0]

NoGHash == [called |-> FALSE, W |-> 0]

\* gHash(block, params) returns W.
CallGHash ==
    /\ ~ghW.called
    /\ ghW' = [called |-> TRUE, W |-> gHash(ghIn.derived, ghIn.nBits)]
    /\ UNCHANGED <<ghIn, exceptGHash>>



Last(s) == s[Len(s)]

Front(s) == SubSeq(s, 1, Len(s) - 1)

\* The index of the most significant non-zero byte of s[lo..hi], 0 if none.
RECURSIVE TopNonZero(_, _, _)
TopNonZero(s, lo, hi) ==
    IF lo > hi THEN 0
    ELSE IF lo = hi THEN (IF s[lo] # 0 THEN lo ELSE 0)
    ELSE LET mid   == (lo + hi) \div 2
             upper == TopNonZero(s, mid + 1, hi)
         IN  IF upper # 0 THEN upper ELSE TopNonZero(s, lo, mid)

\* GMP keeps a magnitude without its leading zero limbs.
StripZeros(s) == SubSeq(s, 1, TopNonZero(s, 1, Len(s)))

MpzZero == [neg |-> FALSE, mag |-> <<>>]

\* mpz_import(x, count, -1, 1, 0, 0, data): the bytes, least significant first.
MpzImport(bytes) == [neg |-> FALSE, mag |-> StripZeros(bytes)]

\* mpz_sizeinbase(x, 2).
MpzSizeInBase2(x) ==
    IF x.mag = <<>> THEN 1 ELSE 8 * (Len(x.mag) - 1) + BitLen(Last(x.mag))

\* mpz_tstbit(x, k) for x >= 0.
MpzTstBit(x, k) ==
    IF (k \div 8) + 1 > Len(x.mag) THEN 0
    ELSE (x.mag[(k \div 8) + 1] \div Pow2(k % 8)) % 2

\* mpz_clrbit(x, k) for x >= 0.
MpzClrBit(x, k) ==
    IF MpzTstBit(x, k) = 0 THEN x
    ELSE [x EXCEPT !.mag =
            StripZeros([@ EXCEPT ![(k \div 8) + 1] = @ - Pow2(k % 8)])]

\* mpz_neg.
MpzNeg(x) == IF x.mag = <<>> THEN x ELSE [x EXCEPT !.neg = ~@]

RECURSIVE BytesOf(_)
BytesOf(n) == IF n = 0 THEN <<>> ELSE <<n % 256>> \o BytesOf(n \div 256)

\* mpz_init_set_si: CScriptBignum(const int64_t&).
MpzSetSi(n) == [neg |-> n < 0, mag |-> BytesOf(Abs(n))]

\* mpz_cmp_si(x, c) == 0.
MpzEqSi(x, c) == x = MpzSetSi(c)

\* A decoder that never clears the valid flag: what C7 rules out.
BignumFromBytesAlwaysValid(encoded) ==
    LET imported == MpzImport(encoded)
    IN  IF Len(encoded) > 0 /\ (Last(encoded) \div 128) % 2 = 1
        THEN LET most_significant_bit == MpzSizeInBase2(imported) - 1
             IN  [value |-> MpzNeg(MpzClrBit(imported, most_significant_bit)),
                  valid |-> TRUE]
        ELSE [value |-> imported, valid |-> TRUE]

\* CScriptBignum(const std::vector<unsigned char>& encoded).
BignumFromBytes(encoded) ==
    LET imported == MpzImport(encoded)
    IN  IF Len(encoded) > 0 /\ (Last(encoded) \div 128) % 2 = 1
        THEN LET most_significant_bit == MpzSizeInBase2(imported) - 1
             IN  IF MpzTstBit(imported, most_significant_bit) = 1
                 THEN LET negated ==
                            MpzNeg(MpzClrBit(imported, most_significant_bit))
                      IN  [value |-> negated, valid |-> ~MpzEqSi(negated, 0)]
                 ELSE [value |-> imported, valid |-> FALSE]
        ELSE [value |-> imported, valid |-> TRUE]

\* CScriptBignum(const int64_t& n).
BignumFromInt(n) == [value |-> MpzSetSi(n), valid |-> TRUE]

\* sign(): operator<(0).
BignumSign(x) == x.neg /\ x.mag # <<>>

\* bits().
BignumBits(x) == MpzSizeInBase2(x)

ZeroBytes(k) == [i \in 1..k |-> 0]

\* A Serialize() without the extra byte of a byte-aligned magnitude: what
\* C6 rules out.
SerializeNoExtraByte(x) ==
    IF MpzEqSi(x, 0) THEN <<>>
    ELSE IF BignumSign(x)
         THEN [x.mag EXCEPT ![Len(x.mag)] = (@ % 128) + 128]
         ELSE x.mag

\* Serialize(): mpz_export writes the magnitude into a zeroed vector of
\* bytesz bytes; the sign goes into the top bit of the last byte.
Serialize(x) ==
    IF MpzEqSi(x, 0) THEN <<>>
    ELSE LET bitsz  == BignumBits(x)
             bytesz == ((bitsz + 7) \div 8) + (IF bitsz % 8 = 0 THEN 1 ELSE 0)
             result == x.mag \o ZeroBytes(bytesz - Len(x.mag))
         IN  IF BignumSign(x)
             THEN [result EXCEPT ![bytesz] = @ + 128]
             ELSE result

\* The assertion of Serialize(): (result.back() & 0x80) == 0 before the sign
\* is set.
SerializeAssertHolds(x) ==
    MpzEqSi(x, 0) \/
    LET bitsz  == BignumBits(x)
        bytesz == ((bitsz + 7) \div 8) + (IF bitsz % 8 = 0 THEN 1 ELSE 0)
        result == x.mag \o ZeroBytes(bytesz - Len(x.mag))
    IN  (result[bytesz] \div 128) % 2 = 0

(***************************************************************************)
(* Deadpool integer rules (deadpool/deadpool.cpp).                         *)
(***************************************************************************)
\* A check of the range only, without the comparison of the bytes with the
\* canonical encoding: what C8 rules out.
CheckDeadpoolIntegerRangeOnly(dataN, fCheckEncoding) ==
    IF Len(dataN) = 0 THEN "bad-bigint-zero"
    ELSE LET n     == BignumFromBytes(dataN)
             bitsz == BignumBits(n.value)
         IN  IF ~n.valid THEN "bad-bigint-invalid-number"
             ELSE IF MpzEqSi(n.value, 0) \/ MpzEqSi(n.value, 1)
                  THEN "bad-bigint-zero"
             ELSE IF BignumSign(n.value) THEN "bad-bigint-negative"
             ELSE IF bitsz < 160 THEN "bad-bigint-too-small"
             ELSE IF bitsz > (520 * 8) - 1 THEN "bad-bigint-too-large"
             ELSE "ok"

\* CheckDeadpoolInteger(dataN, fCheckEncoding, state): "ok", or the reason
\* given to state.Invalid.
CheckDeadpoolIntegerBytes(dataN, fCheckEncoding) ==
    IF Len(dataN) = 0 THEN "bad-bigint-zero"
    ELSE LET n     == BignumFromBytes(dataN)
             bitsz == BignumBits(n.value)
         IN  IF ~n.valid THEN "bad-bigint-invalid-number"
             ELSE IF MpzEqSi(n.value, 0) \/ MpzEqSi(n.value, 1)
                  THEN "bad-bigint-zero"
             ELSE IF BignumSign(n.value) THEN "bad-bigint-negative"
             ELSE IF bitsz < 160 THEN "bad-bigint-too-small"
             ELSE IF bitsz > (520 * 8) - 1 THEN "bad-bigint-too-large"
             ELSE IF ~fCheckEncoding THEN "ok"
             ELSE LET canonicalN == Serialize(n.value)
                  IN  IF Len(dataN) # Len(canonicalN)
                      THEN "bad-bigint-non-canonical-size"
                      ELSE IF dataN # canonicalN
                           THEN "bad-bigint-non-canonical"
                           ELSE "ok"

\* CheckDeadpoolInteger(const CScriptBignum& n, state).
CheckDeadpoolInteger(n) == CheckDeadpoolIntegerBytes(Serialize(n), FALSE)

\* A CTxOut as the checks see it: the TxoutType the script solver gives its
\* scriptPubKey and the bytes of its N push.
\* GetEntryN(txout, dataN) and CAnnounce::ReadN(n): the N push.
GetEntryN(txout) == txout.n

\* CheckTxOutDeadpoolIntegers(txout, state).
CheckTxOutDeadpoolIntegers(txout) ==
    IF txout.type = "DEADPOOL_ENTRY"
    THEN CheckDeadpoolIntegerBytes(GetEntryN(txout), TRUE)
    ELSE IF txout.type = "DEADPOOL_ANNOUNCE"
         THEN CheckDeadpoolIntegerBytes(GetEntryN(txout), TRUE)
         ELSE "ok"

(***************************************************************************)
(* The byte vectors and integers explored.                                 *)
(***************************************************************************)
MaxTail == 2
IntSpan == 300

\* Byte values at the bit boundaries of a byte.
ByteVals == {0, 1, 2, 127, 128, 129, 192, 255}

RECURSIVE SeqsUpTo(_, _)
SeqsUpTo(S, k) ==
    IF k = 0 THEN {<<>>}
    ELSE LET shorter == SeqsUpTo(S, k - 1)
         IN  shorter \cup { Append(t, b) : t \in shorter, b \in S }

\* Lengths around the 160-bit and the 4159-bit limits of a deadpool integer.
FillLens == {0, 1, 18, 19, 20, 518, 519, 520}

ByteVectors ==
    { [i \in 1..k |-> f] \o t :
        k \in FillLens, f \in {0, 255}, t \in SeqsUpTo(ByteVals, MaxTail) }

Int64Inputs ==
    ((-IntSpan)..IntSpan)
      \cup { sgn * (Pow2(k) + d) :
               sgn \in {-1, 1}, k \in {8, 15, 16, 23, 24, 30}, d \in {-1, 0, 1} }

TxoutTypes == {"DEADPOOL_ENTRY", "DEADPOOL_ANNOUNCE", "NONSTANDARD"}

NoTxOut == [type |-> "NONSTANDARD", n |-> <<>>]

\* CScriptBignum(n).Serialize(), and the bytes decoded again.
EncodeInt ==
    /\ bnOp = "none" /\ dpReason = "none"
    /\ \E n \in Int64Inputs :
          LET enc == Serialize(BignumFromInt(n).value)
              dec == BignumFromBytes(enc)
          IN  /\ bnOp' = "int"
              /\ bnInt' = n
              /\ bnEnc' = enc
              /\ bnDec' = dec
              /\ bnReenc' = Serialize(dec.value)
    /\ UNCHANGED exceptBignum

\* CScriptBignum(encoded), and the value serialized again.
DecodeBytes ==
    /\ bnOp = "none" /\ dpReason = "none"
    /\ \E e \in ByteVectors :
          LET dec == BignumFromBytes(e)
          IN  /\ bnOp' = "bytes"
              /\ bnInt' = 0
              /\ bnEnc' = e
              /\ bnDec' = dec
              /\ bnReenc' = Serialize(dec.value)
    /\ UNCHANGED exceptBignum

\* A transaction output is checked during transaction validation.
CheckTxOut ==
    /\ bnOp = "none" /\ dpReason = "none"
    /\ \E t \in TxoutTypes, e \in ByteVectors :
          /\ txo' = [type |-> t, n |-> e]
          /\ dpReason' = CheckTxOutDeadpoolIntegers([type |-> t, n |-> e])
    /\ UNCHANGED exceptDeadpool

(***************************************************************************)
(* The announcement database (deadpool/announcedb.cpp).  A uint256 is a    *)
(* small natural; SHA256 is a collision-free map on the Ns of the model.   *)
(* The database is a function from DeadpoolIndexKey to CClaimValue, and    *)
(* its iterator visits the keys in the order of their serialization: the   *)
(* type, the deadpool id, the locator.                                     *)
(***************************************************************************)
DB_DEADPOOL_ANN == "a"

\* CSHA256: a hash of all the bytes written and of their order.  The digest
\* is a number, folded pairwise over the two halves of the bytes; no two of
\* the byte strings of this model have the same digest.
RECURSIVE Sha256Range(_, _, _)
Sha256Range(data, lo, hi) ==
    IF lo > hi THEN 1
    ELSE IF lo = hi THEN data[lo] + 257
    ELSE LET mid == (lo + hi) \div 2
         IN  ((Sha256Range(data, lo, mid) * 1009)
                + (Sha256Range(data, mid + 1, hi) * 31) + 7) % 1000003

Sha256(data) == Sha256Range(data, 1, Len(data))

\* HashNValue(dataN): sha256 of the bytes of the N push.
HashNValue(dataN) == Sha256(dataN)

\* CAnnounce::NHash().
NHash(announcement) == HashNValue(announcement.out.n)

\* CAnnounce::ClaimHash().
ClaimHash(announcement) == announcement.out.claimHash

\* ExtractAnnouncements(tx, nHeight, anns): the located announcements of the
\* outputs of tx the solver classifies DEADPOOL_ANNOUNCE, in output order.
ExtractAnnouncements(tx, nHeight) ==
    LET isAnn(i) == tx.vout[i].type = "DEADPOOL_ANNOUNCE"
        picked   == SelectSeq([i \in 1..Len(tx.vout) |-> i], isAnn)
    IN  [j \in 1..Len(picked) |->
            [locator      |-> [hash |-> tx.txid, n |-> picked[j] - 1],
             announcement |-> [out |-> tx.vout[picked[j]],
                               nHeight |-> nHeight]]]

\* CDBWrapper::WriteBatch: the writes and erases of a batch, in order, as one
\* atomic update.
RECURSIVE WriteBatch(_, _)
WriteBatch(db, batch) ==
    IF batch = <<>> THEN db
    ELSE LET op   == Head(batch)
             next == IF op.erase
                     THEN [k \in (DOMAIN db) \ {op.key} |-> db[k]]
                     ELSE [k \in (DOMAIN db) \cup {op.key} |->
                              IF k = op.key THEN op.value ELSE db[k]]
         IN  WriteBatch(next, Tail(batch))

AnnounceKey(item) ==
    [type       |-> DB_DEADPOOL_ANN,
     deadpoolId |-> NHash(item.announcement),
     locator    |-> item.locator]

\* A RemoveAnnouncements() that erases every record of the deadpool id,
\* whatever its locator: what C3 rules out.
RemoveAnnouncementsById(db, list) ==
    LET ids == { NHash(list[i].announcement) : i \in 1..Len(list) }
    IN  [k \in { q \in DOMAIN db : q.deadpoolId \notin ids } |-> db[k]]

\* CAnnounceDB::AddAnnouncements(list).
AddAnnouncements(db, list) ==
    WriteBatch(db,
        [i \in 1..Len(list) |->
            [erase |-> FALSE,
             key   |-> AnnounceKey(list[i]),
             value |-> [height    |-> list[i].announcement.nHeight,
                        claimHash |-> ClaimHash(list[i].announcement)]]])

\* CAnnounceDB::RemoveAnnouncements(list).
RemoveAnnouncements(db, list) ==
    WriteBatch(db,
        [i \in 1..Len(list) |->
            [erase |-> TRUE, key |-> AnnounceKey(list[i])]])

\* The order of the serialized keys under the iterator.
KeyLess(a, b) ==
    \/ a.deadpoolId < b.deadpoolId
    \/ a.deadpoolId = b.deadpoolId /\ a.locator.hash < b.locator.hash
    \/ a.deadpoolId = b.deadpoolId /\ a.locator.hash = b.locator.hash
          /\ a.locator.n < b.locator.n

RECURSIVE SortKeys(_)
SortKeys(keys) ==
    IF keys = {} THEN <<>>
    ELSE LET first == CHOOSE k \in keys : \A q \in keys \ {k} : KeyLess(k, q)
         IN  <<first>> \o SortKeys(keys \ {first})

\* CDBIterator::Seek(DeadpoolIndexSearchKey{type, hash}): the position of the
\* first key not below the search key, which is a prefix of the keys of hash.
Seek(keys, hash) ==
    LET at == { i \in 1..Len(keys) : keys[i].deadpoolId >= hash }
    IN  IF at = {} THEN Len(keys) + 1
        ELSE CHOOSE i \in at : \A j \in at : i <= j

\* The loop of ClaimExists from the cursor position i.
RECURSIVE ClaimScan(_, _, _, _, _, _, _)
ClaimScan(db, keys, i, hash, claim, minHeight, maxHeight) ==
    IF i > Len(keys) THEN FALSE
    ELSE IF keys[i].type = DB_DEADPOOL_ANN /\ keys[i].deadpoolId = hash
         THEN LET value == db[keys[i]]
              IN  IF /\ value.height <= maxHeight
                     /\ value.height >= minHeight
                     /\ value.claimHash = claim
                  THEN TRUE
                  ELSE ClaimScan(db, keys, i + 1, hash, claim,
                                 minHeight, maxHeight)
         ELSE FALSE

\* A ClaimExists() whose window excludes its upper end: what C2 rules out.
ClaimExistsBelowMax(db, hash, claim, minHeight, maxHeight) ==
    \E k \in DOMAIN db :
        /\ k.deadpoolId = hash
        /\ db[k].claimHash = claim
        /\ db[k].height >= minHeight
        /\ db[k].height < maxHeight

\* CAnnounceDB::ClaimExists(hash, claim, minHeight, maxHeight).
ClaimExists(db, hash, claim, minHeight, maxHeight) ==
    LET keys == SortKeys(DOMAIN db)
    IN  ClaimScan(db, keys, Seek(keys, hash), hash, claim,
                  minHeight, maxHeight)

\* Consensus parameters of the networks (chainparams.cpp).
MainAnnounceMaturity == 100
MainAnnounceValidity == 672
TestAnnounceMaturity == 5
TestAnnounceValidity == 100

nDeadpoolAnnounceMaturity(net) ==
    IF net = "main" THEN MainAnnounceMaturity ELSE TestAnnounceMaturity

nDeadpoolAnnounceValidity(net) ==
    IF net = "main" THEN MainAnnounceValidity ELSE TestAnnounceValidity

\* OP_ANNOUNCEVERIFY at tip height tip, for the entry of deadpool id hash and
\* the commitment claim: an announcement of height H with
\* maturity <= tip - H <= validity.
VerifyClaim(db, net, tip, hash, claim) ==
    ClaimExists(db, hash, claim,
                tip - nDeadpoolAnnounceValidity(net),
                tip - nDeadpoolAnnounceMaturity(net))

\* The blocks of heights 1..AnnLow carry transactions; the chain grows past
\* the validity of their announcements.
AnnLow == 2

MaxTip(net) == AnnLow + nDeadpoolAnnounceValidity(net) + 2

AnnOut(n, claimHash) ==
    [type |-> "DEADPOOL_ANNOUNCE", n |-> <<n>>, claimHash |-> claimHash]

PayOut == [type |-> "PUBKEYHASH", n |-> <<>>, claimHash |-> 0]

\* The transactions of the model by txid.  Transactions 1 and 2 announce the
\* same N with the same commitment at different outpoints.
AnnTxs ==
    <<[txid |-> 1, vout |-> <<AnnOut(1, 1)>>],
      [txid |-> 2, vout |-> <<PayOut, AnnOut(1, 1), AnnOut(2, 1)>>],
      [txid |-> 3, vout |-> <<AnnOut(1, 2), AnnOut(2, 2)>>],
      [txid |-> 4, vout |-> <<PayOut>>]>>

\* The blocks of the model: the txids of their transactions, in block order.
AnnBlockChoices == {<<>>, <<1>>, <<2>>, <<3>>, <<4, 1>>, <<2, 3>>}

RECURSIVE BlockAnnouncements(_, _)
BlockAnnouncements(block, nHeight) ==
    IF block = <<>> THEN <<>>
    ELSE ExtractAnnouncements(AnnTxs[Head(block)], nHeight)
            \o BlockAnnouncements(Tail(block), nHeight)

TxidsOf(blocks) ==
    UNION { { blocks[i][j] : j \in 1..Len(blocks[i]) } : i \in 1..Len(blocks) }

EmptyDb == [k \in {} |-> 0]

NoQuery == [op |-> "none"]

\* The operations that are not queries.
ChainOps == {"none", "connect", "disconnect"}

\* A block is connected on top of the tip: its announcements are added.
\* A transaction id occurs once in a chain.
AnnConnectBlock ==
    /\ annTip < MaxTip(annNet)
    /\ LET nHeight == annTip + 1
       IN  \E block \in (IF nHeight <= AnnLow
                         THEN { b \in AnnBlockChoices :
                                  TxidsOf(<<b>>) \cap TxidsOf(annBlocks) = {} }
                         ELSE {<<>>}) :
              /\ annDb' = AddAnnouncements(annDb,
                              BlockAnnouncements(block, nHeight))
              /\ annTip' = nHeight
              /\ annBlocks' = IF nHeight <= AnnLow
                              THEN Append(annBlocks, block) ELSE annBlocks
              /\ annUndo' = IF nHeight <= AnnLow
                            THEN Append(annUndo, annDb) ELSE annUndo
    /\ annQuery' = [op |-> "connect"]
    /\ UNCHANGED <<annNet, exceptAnnounce>>

\* The tip is disconnected: its announcements are removed.
AnnDisconnectBlock ==
    /\ annTip > 0
    /\ LET block == IF annTip <= AnnLow THEN Last(annBlocks) ELSE <<>>
       IN  annDb' = RemoveAnnouncements(annDb,
                        BlockAnnouncements(block, annTip))
    /\ annTip' = annTip - 1
    /\ annBlocks' = IF annTip <= AnnLow THEN Front(annBlocks) ELSE annBlocks
    /\ annUndo' = IF annTip <= AnnLow THEN Front(annUndo) ELSE annUndo
    /\ annQuery' = [op |-> "disconnect"]
    /\ UNCHANGED <<annNet, exceptAnnounce>>

\* ClaimExists is called on the database of a short chain.
AnnClaimExists ==
    /\ annTip <= AnnLow
    /\ annQuery.op \in ChainOps
    /\ \E dataN \in 1..3, claim \in 1..2,
          minHeight \in (-1)..(AnnLow + 1), maxHeight \in (-1)..(AnnLow + 1) :
          annQuery' = [op |-> "exists", hash |-> HashNValue(<<dataN>>),
                       claim |-> claim,
                       minHeight |-> minHeight, maxHeight |-> maxHeight,
                       result |-> ClaimExists(annDb, HashNValue(<<dataN>>), claim,
                                              minHeight, maxHeight)]
    /\ UNCHANGED <<annNet, annTip, annBlocks, annDb, annUndo, exceptAnnounce>>

\* A claim of an entry is verified at the tip.
AnnVerifyClaim ==
    /\ annQuery.op \in ChainOps
    /\ \E dataN \in 1..3, claim \in 1..2 :
          annQuery' = [op |-> "verify", hash |-> HashNValue(<<dataN>>),
                       claim |-> claim,
                       result |-> VerifyClaim(annDb, annNet, annTip,
                                              HashNValue(<<dataN>>), claim)]
    /\ UNCHANGED <<annNet, annTip, annBlocks, annDb, annUndo, exceptAnnounce>>

(***************************************************************************)
(* The deadpool index (index/deadpoolindex.cpp).  A key is the tuple of    *)
(* its serialized fields, and the iterator visits the keys in the order of *)
(* these tuples:                                                           *)
(*   entries and announcements  <<type, deadpoolId, hash, n>>              *)
(*   claim records              <<'c', hash, n, deadpoolId>>               *)
(***************************************************************************)
DB_DEADPOOL_ENTRY == 100
DB_DEADPOOL_ANNOUNCE == 97
DB_DEADPOOL_CLAIMS == 99

\* uint256::ZERO.
ZERO == 0

\* a is below b in their first len fields.
LexLess(a, b, len) ==
    \E i \in 1..len : a[i] < b[i] /\ \A j \in 1..(i - 1) : a[j] = b[j]

RECURSIVE SortTuples(_)
SortTuples(keys) ==
    IF keys = {} THEN <<>>
    ELSE LET first == CHOOSE k \in keys :
                          \A q \in keys \ {k} : LexLess(k, q, Len(k))
         IN  <<first>> \o SortTuples(keys \ {first})

\* CDBIterator::Seek(prefix): the position of the first key not below prefix.
SeekTuple(keys, prefix) ==
    LET at == { i \in 1..Len(keys) : ~LexLess(keys[i], prefix, Len(prefix)) }
    IN  IF at = {} THEN Len(keys) + 1
        ELSE CHOOSE i \in at : \A j \in at : i <= j

\* DB::WriteEntryOrAnnounce(type, deadpoolId, outPoint, height, txOut).
WriteEntryOrAnnounce(db, type, deadpoolId, outPoint, height, txOut) ==
    WriteBatch(db,
        <<[erase |-> FALSE,
           key   |-> <<type, deadpoolId, outPoint.hash, outPoint.n>>,
           value |-> [height |-> height, txOut |-> txOut]]>>)

\* DB::WriteEntry(deadpoolId, outPoint, height, txOut).
WriteEntry(db, deadpoolId, outPoint, height, txOut) ==
    WriteEntryOrAnnounce(db, DB_DEADPOOL_ENTRY, deadpoolId, outPoint,
                         height, txOut)

\* DB::WriteAnnounce(deadpoolId, outPoint, ann).
WriteAnnounce(db, deadpoolId, outPoint, ann) ==
    WriteEntryOrAnnounce(db, DB_DEADPOOL_ANNOUNCE, deadpoolId, outPoint,
                         ann.nHeight, ann.out)

\* The loop of ReadEntryOrAnnounce from the cursor position i.
RECURSIVE ReadScan(_, _, _, _, _)
ReadScan(db, keys, i, type, deadpoolId) ==
    IF i > Len(keys) THEN <<>>
    ELSE IF keys[i][1] = type /\ keys[i][2] = deadpoolId
         THEN <<[deadpoolId |-> keys[i][2],
                 locator    |-> [hash |-> keys[i][3], n |-> keys[i][4]],
                 height     |-> db[keys[i]].height,
                 txOut      |-> db[keys[i]].txOut]>>
                 \o ReadScan(db, keys, i + 1, type, deadpoolId)
         ELSE <<>>

\* DB::ReadEntryOrAnnounce(type, deadpoolId, list).
ReadEntryOrAnnounce(db, type, deadpoolId) ==
    LET keys == SortTuples(DOMAIN db)
    IN  ReadScan(db, keys, SeekTuple(keys, <<type, deadpoolId>>),
                 type, deadpoolId)

\* DeadpoolIndex::FindEntries(deadpoolId, list).
FindEntries(db, deadpoolId) ==
    ReadEntryOrAnnounce(db, DB_DEADPOOL_ENTRY, deadpoolId)

\* DeadpoolIndex::FindAnnounces(deadpoolId, list).
FindAnnounces(db, deadpoolId) ==
    ReadEntryOrAnnounce(db, DB_DEADPOOL_ANNOUNCE, deadpoolId)

\* The loop of FindEntriesSinceHeight from the cursor position i.
RECURSIVE SinceScan(_, _, _, _)
SinceScan(db, keys, i, min_height) ==
    IF i > Len(keys) THEN <<>>
    ELSE IF keys[i][1] = DB_DEADPOOL_ENTRY
         THEN IF db[keys[i]].height < min_height
              THEN SinceScan(db, keys, i + 1, min_height)
              ELSE <<[deadpoolId |-> keys[i][2],
                      locator    |-> [hash |-> keys[i][3], n |-> keys[i][4]],
                      height     |-> db[keys[i]].height,
                      txOut      |-> db[keys[i]].txOut]>>
                      \o SinceScan(db, keys, i + 1, min_height)
         ELSE <<>>

\* DeadpoolIndex::FindEntriesSinceHeight(min_height, list).
FindEntriesSinceHeight(db, min_height) ==
    LET keys == SortTuples(DOMAIN db)
    IN  SinceScan(db, keys, SeekTuple(keys, <<DB_DEADPOOL_ENTRY>>), min_height)

\* DB::WriteClaimRecord(outpoint, deadpoolId, claimHeight, claimBlockHash,
\* claimTxHash, solution).
WriteClaimRecord(db, outpoint, deadpoolId, claimHeight, claimBlockHash, claimTxHash, solution) ==
    WriteBatch(db,
        <<[erase |-> FALSE,
           key   |-> <<DB_DEADPOOL_CLAIMS, outpoint.hash, outpoint.n, deadpoolId>>,
           value |-> [claimHeight    |-> claimHeight,
                      claimBlockHash |-> claimBlockHash,
                      claimTxHash    |-> claimTxHash,
                      solution       |-> solution]]>>)

\* A WriteUnclaimedEntry that leaves the id of the record zero: what C29
\* rules out.
WriteUnclaimedEntryOfNoId(db, outpoint, deadpoolId) ==
    WriteClaimRecord(db, outpoint, ZERO, 0, ZERO, ZERO, <<>>)

\* DB::WriteUnclaimedEntry(outpoint, deadpoolId).
WriteUnclaimedEntry(db, outpoint, deadpoolId) ==
    WriteClaimRecord(db, outpoint, deadpoolId, 0, ZERO, ZERO, <<>>)

\* DB::WriteClaimedEntry(outpoint, deadpoolId, claimHeight, claimBlockHash,
\* claimTxHash, solution).
WriteClaimedEntry(db, outpoint, deadpoolId, claimHeight, claimBlockHash, claimTxHash, solution) ==
    WriteClaimRecord(db, outpoint, deadpoolId, claimHeight, claimBlockHash,
                     claimTxHash, solution)

NoClaimRecord == [found |-> FALSE]

\* The claim record ReadClaimRecord builds from the key under the cursor.
ClaimRecordAt(db, key) ==
    [found          |-> TRUE,
     entryLocator   |-> [hash |-> key[2], n |-> key[3]],
     deadpoolId     |-> key[4],
     claimHeight    |-> db[key].claimHeight,
     claimBlockHash |-> db[key].claimBlockHash,
     claimTxHash    |-> db[key].claimTxHash,
     solution       |-> db[key].solution]

\* ReadClaimRecord once the cursor is at position i of keys.
ClaimRecordUnderCursor(db, keys, i, outpoint) ==
    IF i <= Len(keys)
       /\ keys[i][1] = DB_DEADPOOL_CLAIMS
       /\ keys[i][2] = outpoint.hash
       /\ keys[i][3] = outpoint.n
    THEN ClaimRecordAt(db, keys[i])
    ELSE NoClaimRecord

ClaimRecordAfterSeek(db, keys, outpoint) ==
    ClaimRecordUnderCursor(db, keys,
        SeekTuple(keys, <<DB_DEADPOOL_CLAIMS, outpoint.hash, outpoint.n>>),
        outpoint)

\* DB::ReadClaimRecord(outpoint, claim_record).
ReadClaimRecord(db, outpoint) ==
    ClaimRecordAfterSeek(db, SortTuples(DOMAIN db), outpoint)

\* DeadpoolIndex::FindClaim(outpoint, claim).
FindClaim(db, outpoint) == ReadClaimRecord(db, outpoint)

\* IsUnclaimedEntry once ReadClaimRecord has filled result.
UnclaimedResult(result) ==
    IF result.found /\ result.claimHeight = 0 /\ result.deadpoolId # ZERO
    THEN [unclaimed |-> TRUE, deadpoolId |-> result.deadpoolId]
    ELSE [unclaimed |-> FALSE]

\* DB::IsUnclaimedEntry(outpoint, deadpoolId).
IsUnclaimedEntry(db, outpoint) == UnclaimedResult(ReadClaimRecord(db, outpoint))

\* GetEntryNHash(txout).
GetEntryNHash(txout) == HashNValue(GetEntryN(txout))

\* GetSolutionFromScriptSig(txin): the second push of the scriptSig, decoded.
GetSolutionFromScriptSig(txin) == BignumFromBytes(txin.solution)

\* WriteBlock: the outputs of tx from output i (vout index i - 1) on.
RECURSIVE IndexOutputs(_, _, _, _)
IndexOutputs(db, tx, i, pindex) ==
    IF i > Len(tx.vout) THEN db
    ELSE LET txout    == tx.vout[i]
             outpoint == [hash |-> tx.txid, n |-> i - 1]
             next ==
               IF txout.type = "DEADPOOL_ANNOUNCE"
               THEN LET ann == [out |-> txout, nHeight |-> pindex.nHeight]
                    IN  WriteAnnounce(db, NHash(ann), outpoint, ann)
               ELSE IF txout.type = "DEADPOOL_ENTRY"
               THEN LET nhash == GetEntryNHash(txout)
                    IN  WriteUnclaimedEntry(
                            WriteEntry(db, nhash, outpoint, pindex.nHeight, txout),
                            outpoint, nhash)
               ELSE db
         IN  IndexOutputs(next, tx, i + 1, pindex)

\* WriteBlock: the inputs of tx from input i on.
RECURSIVE IndexInputs(_, _, _, _)
IndexInputs(db, tx, i, pindex) ==
    IF i > Len(tx.vin) THEN db
    ELSE LET txin  == tx.vin[i]
             entry == IsUnclaimedEntry(db, txin.prevout)
             next  ==
               IF entry.unclaimed
               THEN LET solution == GetSolutionFromScriptSig(txin)
                    IN  WriteClaimedEntry(db, txin.prevout, entry.deadpoolId,
                                          pindex.nHeight, pindex.hash, tx.txid,
                                          Serialize(solution.value))
               ELSE db
         IN  IndexInputs(next, tx, i + 1, pindex)

\* A WriteBlock that indexes the inputs of every transaction of the block
\* before the outputs of any: what C5 rules out.
RECURSIVE IndexTxsInputsFirst(_, _, _)
IndexTxsInputsFirst(db, vtx, pindex) ==
    LET RECURSIVE Ins(_, _)
        Ins(d, txs) ==
            IF txs = <<>> THEN d
            ELSE Ins(IndexInputs(d, Head(txs), 1, pindex), Tail(txs))
        RECURSIVE Outs(_, _)
        Outs(d, txs) ==
            IF txs = <<>> THEN d
            ELSE Outs(IndexOutputs(d, Head(txs), 1, pindex), Tail(txs))
    IN  Outs(Ins(db, vtx), vtx)

\* WriteBlock: the transactions of the block in order, the outputs of each
\* before its inputs.
RECURSIVE IndexTxs(_, _, _)
IndexTxs(db, vtx, pindex) ==
    IF vtx = <<>> THEN db
    ELSE LET tx == Head(vtx)
         IN  IndexTxs(IndexInputs(IndexOutputs(db, tx, 1, pindex), tx, 1, pindex),
                      Tail(vtx), pindex)

\* DeadpoolIndex::WriteBlock(block, pindex).
WriteBlock(db, block, pindex) ==
    IF pindex.nHeight = 0 THEN db
    ELSE IndexTxs(db, block.vtx, pindex)

\* The chain of the model has heights 0..MaxIdxHeight.
MaxIdxHeight == 3

EntryOut(n) == [type |-> "DEADPOOL_ENTRY", n |-> <<n>>, claimHash |-> 0]

TxIn(hash, n, solution) ==
    [prevout |-> [hash |-> hash, n |-> n], solution |-> solution]

\* Outpoints of this transaction id are coins from outside the model.
FundingTxid == 9

\* The transactions of the model by txid.  2 and 3 are two claims of the
\* entry of 1; 5 claims the entry of 4 and makes an entry for the N of 1;
\* 7 is the coinbase of the genesis block.
IdxTxs ==
    <<[txid |-> 1, vin  |-> <<TxIn(FundingTxid, 0, <<>>)>>,
                   vout |-> <<EntryOut(1)>>],
      [txid |-> 2, vin  |-> <<TxIn(1, 0, <<3>>)>>,
                   vout |-> <<PayOut>>],
      [txid |-> 3, vin  |-> <<TxIn(1, 0, <<3, 0>>)>>,
                   vout |-> <<AnnOut(1, 1)>>],
      [txid |-> 4, vin  |-> <<TxIn(FundingTxid, 1, <<>>)>>,
                   vout |-> <<AnnOut(2, 1), EntryOut(2)>>],
      [txid |-> 5, vin  |-> <<TxIn(4, 1, <<0, 128>>)>>,
                   vout |-> <<EntryOut(1)>>],
      [txid |-> 6, vin  |-> <<TxIn(FundingTxid, 2, <<>>), TxIn(5, 0, <<255, 0>>)>>,
                   vout |-> <<PayOut>>],
      [txid |-> 7, vin  |-> <<>>,
                   vout |-> <<PayOut>>]>>

\* The blocks of the model: their hash and the txids of their transactions.
GenesisBlock == [hash |-> 10, txids |-> <<7>>]

IdxBlockChoices ==
    {[hash |-> 11, txids |-> <<1>>],
     [hash |-> 12, txids |-> <<2>>],
     [hash |-> 13, txids |-> <<3>>],
     [hash |-> 14, txids |-> <<1, 2>>],
     [hash |-> 15, txids |-> <<4, 5>>],
     [hash |-> 16, txids |-> <<6>>],
     [hash |-> 17, txids |-> <<4>>],
     [hash |-> 18, txids |-> <<1, 3>>]}

\* The CBlock of a block of the model.
BlockOf(b) == [vtx |-> [i \in 1..Len(b.txids) |-> IdxTxs[b.txids[i]]]]

ChainTxids(chain) ==
    UNION { { chain[i].txids[j] : j \in 1..Len(chain[i].txids) } :
            i \in 1..Len(chain) }

SpentBy(txids) ==
    UNION { { IdxTxs[t].vin[i].prevout : i \in 1..Len(IdxTxs[t].vin) } :
            t \in txids }

\* The transactions txids can follow a chain with the transactions known:
\* no txid occurs twice, every input spends an unspent output of an earlier
\* transaction or a coin from outside.
RECURSIVE ValidTxs(_, _)
ValidTxs(txids, known) ==
    IF txids = <<>> THEN TRUE
    ELSE LET t   == Head(txids)
             ins == SpentBy({t})
         IN  /\ t \notin known
             /\ ins \cap SpentBy(known) = {}
             /\ \A p \in ins :
                   \/ p.hash = FundingTxid
                   \/ p.hash \in known /\ p.n < Len(IdxTxs[p.hash].vout)
             /\ ValidTxs(Tail(txids), known \cup {t})

\* BaseIndex::BlockConnected: the block extends the best block of the index
\* and is handed to WriteBlock.  The first block is the genesis block.
IdxBlockConnected ==
    /\ Len(idxChain) <= MaxIdxHeight
    /\ \E b \in (IF idxChain = <<>> THEN {GenesisBlock}
                 ELSE { c \in IdxBlockChoices :
                          ValidTxs(c.txids, ChainTxids(idxChain)) }) :
          /\ idxDb' = WriteBlock(idxDb, BlockOf(b),
                                 [nHeight |-> Len(idxChain), hash |-> b.hash])
          /\ idxChain' = Append(idxChain, b)
    /\ idxOp' = "connect"
    /\ UNCHANGED exceptIndex

\* A reorg disconnects the tip.  DeadpoolIndex overrides WriteBlock, GetDB
\* and GetName only: nothing of it runs, and its database stays as it is.
IdxBlockDisconnected ==
    /\ Len(idxChain) > 1
    /\ idxChain' = Front(idxChain)
    /\ idxDb' = idxDb
    /\ idxOp' = "rewind"
    /\ UNCHANGED exceptIndex

(***************************************************************************)
(* WriteBlock one WriteBatch at a time (chain.cpp).  WriteEntryOrAnnounce  *)
(* and WriteClaimRecord each build a CDBBatch of their own and commit it,  *)
(* so the database between two commits is what an RPC reader, or a restart *)
(* after a crash, finds.  The index thread writes the blocks of the chain  *)
(* in order from the block it is synced to.                                *)
(***************************************************************************)
\* The position WriteBlock starts at: the first output of the first
\* transaction.  entryWritten says that WriteEntry of the output is done
\* and WriteUnclaimedEntry is next.
StartPc == [tx |-> 1, part |-> "vout", i |-> 1, entryWritten |-> FALSE]

\* No WriteBlock is running and no block is written yet.  Of the last
\* restart the model keeps the height the index started again from and
\* whether the node stopped in the middle of a WriteBlock; once is the
\* database of a WriteBlock of each block of the chain, once and in order.
NoRun == [running |-> FALSE, synced |-> 0, pc |-> StartPc, restarts |-> 0, from |-> 0, midWrite |-> FALSE, once |-> EmptyDb]

\* The restarts of the index thread the model follows.
MaxRestarts == 1

\* DeadpoolIndex::WriteBlock from position pc up to and with its next
\* WriteBatch: the database after that commit and the position after it,
\* or done when WriteBlock returns without a further commit.
RECURSIVE WriteBlockStep(_, _, _, _)
WriteBlockStep(db, block, pindex, pc) ==
    IF pindex.nHeight = 0 \/ pc.tx > Len(block.vtx)
    THEN [db |-> db, pc |-> pc, done |-> TRUE]
    ELSE LET tx == block.vtx[pc.tx]
         IN  IF pc.part = "vout"
             THEN IF pc.i > Len(tx.vout)
                  THEN WriteBlockStep(db, block, pindex,
                           [pc EXCEPT !.part = "vin", !.i = 1])
                  ELSE LET txout    == tx.vout[pc.i]
                           outpoint == [hash |-> tx.txid, n |-> pc.i - 1]
                       IN  IF txout.type = "DEADPOOL_ANNOUNCE"
                           THEN LET ann == [out |-> txout,
                                            nHeight |-> pindex.nHeight]
                                IN  [db   |-> WriteAnnounce(db, NHash(ann),
                                                            outpoint, ann),
                                     pc   |-> [pc EXCEPT !.i = pc.i + 1],
                                     done |-> FALSE]
                           ELSE IF txout.type = "DEADPOOL_ENTRY"
                           THEN LET nhash == GetEntryNHash(txout)
                                IN  IF ~pc.entryWritten
                                    THEN [db   |-> WriteEntry(db, nhash, outpoint,
                                                       pindex.nHeight, txout),
                                          pc   |-> [pc EXCEPT
                                                      !.entryWritten = TRUE],
                                          done |-> FALSE]
                                    ELSE [db   |-> WriteUnclaimedEntry(db,
                                                       outpoint, nhash),
                                          pc   |-> [pc EXCEPT
                                                      !.i = pc.i + 1,
                                                      !.entryWritten = FALSE],
                                          done |-> FALSE]
                           ELSE WriteBlockStep(db, block, pindex,
                                    [pc EXCEPT !.i = pc.i + 1])
             ELSE IF pc.i > Len(tx.vin)
                  THEN WriteBlockStep(db, block, pindex,
                           [pc EXCEPT !.tx = pc.tx + 1, !.part = "vout",
                                      !.i = 1])
                  ELSE LET txin  == tx.vin[pc.i]
                           entry == IsUnclaimedEntry(db, txin.prevout)
                       IN  IF entry.unclaimed
                           THEN LET solution == GetSolutionFromScriptSig(txin)
                                IN  [db   |-> WriteClaimedEntry(db,
                                                  txin.prevout, entry.deadpoolId,
                                                  pindex.nHeight, pindex.hash,
                                                  tx.txid,
                                                  Serialize(solution.value)),
                                     pc   |-> [pc EXCEPT !.i = pc.i + 1],
                                     done |-> FALSE]
                           ELSE WriteBlockStep(db, block, pindex,
                                    [pc EXCEPT !.i = pc.i + 1])

\* The block the index thread is at: the first one it is not synced to.
WbBlock == idxChain[wbRun.synced + 1]

WbIndex == [nHeight |-> wbRun.synced, hash |-> WbBlock.hash]

\* An index that takes itself to be at the tip of the chain once it has
\* written one block again.
SyncedAfterAtTip(synced, tip) == tip

\* BaseIndex: the block that was handed to WriteBlock is the best block of
\* the index once WriteBlock has returned true.
SyncedAfter(synced, tip) == synced + 1

\* The chain connects a block while the index is synced to its tip.  The
\* first block is the genesis block.
WbBlockConnected ==
    /\ ~wbRun.running
    /\ wbRun.synced = Len(idxChain)
    /\ Len(idxChain) <= MaxIdxHeight
    /\ \E b \in (IF idxChain = <<>> THEN {GenesisBlock}
                 ELSE { c \in IdxBlockChoices :
                          ValidTxs(c.txids, ChainTxids(idxChain)) }) :
          /\ idxChain' = Append(idxChain, b)
          /\ wbRun' = [wbRun EXCEPT !.once =
                          WriteBlock(wbRun.once, BlockOf(b),
                              [nHeight |-> Len(idxChain), hash |-> b.hash])]
    /\ idxOp' = "connect"
    /\ UNCHANGED idxDb
    /\ UNCHANGED exceptWrites

\* The index thread hands the next block of the chain to WriteBlock.
WbBegin ==
    /\ ~wbRun.running
    /\ wbRun.synced < Len(idxChain)
    /\ wbRun' = [wbRun EXCEPT !.running = TRUE, !.pc = StartPc]
    /\ idxOp' = "begin"
    /\ UNCHANGED <<idxChain, idxDb>>
    /\ UNCHANGED exceptWrites

\* WriteBlock runs up to its next WriteBatch and commits it.
WbWriteBatch ==
    /\ wbRun.running
    /\ LET step == WriteBlockStep(idxDb, BlockOf(WbBlock), WbIndex, wbRun.pc)
       IN  /\ ~step.done
           /\ idxDb' = step.db
           /\ wbRun' = [wbRun EXCEPT !.pc = step.pc]
    /\ idxOp' = "write"
    /\ UNCHANGED idxChain
    /\ UNCHANGED exceptWrites

\* WriteBlock has nothing left to write and returns true.
WbReturn ==
    /\ wbRun.running
    /\ WriteBlockStep(idxDb, BlockOf(WbBlock), WbIndex, wbRun.pc).done
    /\ wbRun' = [wbRun EXCEPT !.running = FALSE,
                              !.synced = SyncedAfter(wbRun.synced,
                                                     Len(idxChain)),
                              !.pc = StartPc]
    /\ idxOp' = "return"
    /\ UNCHANGED <<idxChain, idxDb>>
    /\ UNCHANGED exceptWrites

\* The node stops, in the middle of a WriteBlock or between two, and starts
\* again: the database is as the last commit left it, and the index is
\* synced to the best block it saved, which is the block it was synced to
\* or an earlier one.
WbRestart ==
    /\ wbRun.restarts < MaxRestarts
    /\ \E saved \in 0..wbRun.synced :
          wbRun' = [wbRun EXCEPT !.running = FALSE, !.synced = saved,
                                 !.pc = StartPc,
                                 !.restarts = wbRun.restarts + 1,
                                 !.from = saved,
                                 !.midWrite = wbRun.running]
    /\ idxOp' = "restart"
    /\ UNCHANGED <<idxChain, idxDb>>
    /\ UNCHANGED exceptWrites

(***************************************************************************)
(* The difficulty retarget (pow.cpp).  Of the chain of CBlockIndex the     *)
(* model keeps what GetNextWorkRequired reads: the block indexes from the  *)
(* last multiple of the adjustment interval up to the tip.                 *)
(***************************************************************************)
\* Consensus::Params of the networks (chainparams.cpp).
Params(net) ==
    IF net = "main"
    THEN [powLimit |-> 230, nPowTargetTimespan |-> 1209600,
          nPowTargetSpacing |-> 1800,
          fPowAllowMinDifficultyBlocks |-> FALSE, fPowNoRetargeting |-> FALSE]
    ELSE IF net = "test"
    THEN [powLimit |-> 210, nPowTargetTimespan |-> 86400,
          nPowTargetSpacing |-> 300,
          fPowAllowMinDifficultyBlocks |-> TRUE, fPowNoRetargeting |-> FALSE]
    ELSE [powLimit |-> 32, nPowTargetTimespan |-> 1209600,
          nPowTargetSpacing |-> 1800,
          fPowAllowMinDifficultyBlocks |-> TRUE, fPowNoRetargeting |-> TRUE]

\* The genesis block of the networks: its nBits, and its time as time 0.
GenesisIndex(net) ==
    [nBits |-> IF net = "main" THEN 230 ELSE IF net = "test" THEN 210 ELSE 32,
     nTime |-> 0]

\* Consensus::Params::DifficultyAdjustmentInterval().
DifficultyAdjustmentInterval(params) ==
    params.nPowTargetTimespan \div params.nPowTargetSpacing

\* The float constants of CalculateNextWorkRequired, as the doubles they are
\* compared as: 1.0333f = FLT_1_0333 / 2^23 and 0.90f = FLT_0_90 / 2^24.
FLT_1_0333 == 8667949
FLT_0_90 == 15099494

\* x * y / 2^k for 0 <= x, y < 2^24 and 12 <= k <= 24, from 12-bit halves:
\* the integer part q, and whether the quotient is that integer.
MulShr(x, y, k) ==
    LET hi  == (x \div 4096) * (y \div 4096)
        mid == ((x \div 4096) * (y % 4096)) + ((x % 4096) * (y \div 4096))
        lo  == (x % 4096) * (y % 4096)
        m   == mid + (lo \div 4096)
    IN  [q     |-> (hi * Pow2(24 - k)) + (m \div Pow2(k - 12)),
         exact |-> (m % Pow2(k - 12) = 0) /\ (lo % 4096 = 0)]

\* (double)a / (double)t > num / 2^k.  The quotient of two integers below
\* 2^24 is further from a double of 24 significant bits than its rounding.
RatioAbove(a, t, num, k) == a > MulShr(num, t, k).q

\* (double)a / (double)t < num / 2^k.
RatioBelow(a, t, num, k) ==
    IF MulShr(num, t, k).exact
    THEN a < MulShr(num, t, k).q
    ELSE a <= MulShr(num, t, k).q

\* A CalculateNextWorkRequired() that moves nBits by the whole deviation of
\* the period, in tenths of the target: what C9 rules out.
CalculateNextWorkByDeviation(pindexLast, nFirstBlockTime, params) ==
    IF params.fPowNoRetargeting THEN pindexLast.nBits
    ELSE LET nActualTimespan == pindexLast.nTime - nFirstBlockTime
         IN  (pindexLast.nBits + 10
                - ((10 * nActualTimespan) \div params.nPowTargetTimespan)) % 65536

\* CalculateNextWorkRequired(pindexLast, nFirstBlockTime, params).
CalculateNextWorkRequired(pindexLast, nFirstBlockTime, params) ==
    IF params.fPowNoRetargeting THEN pindexLast.nBits
    ELSE LET nActualTimespan == pindexLast.nTime - nFirstBlockTime
             above == RatioAbove(nActualTimespan, params.nPowTargetTimespan,
                                 FLT_1_0333, 23)
             below == RatioBelow(nActualTimespan, params.nPowTargetTimespan,
                                 FLT_0_90, 24)
             nRetarget == IF below THEN 1 ELSE IF above THEN -1 ELSE 0
         IN  (pindexLast.nBits + nRetarget) % 65536

\* The greatest position in lo..hi of period whose nBits is not powLimit,
\* 0 if there is none.
RECURSIVE LastAbovePowLimit(_, _, _, _)
LastAbovePowLimit(period, lo, hi, params) ==
    IF lo > hi THEN 0
    ELSE IF lo = hi
         THEN (IF period[lo].nBits # params.powLimit THEN lo ELSE 0)
    ELSE LET mid   == (lo + hi) \div 2
             upper == LastAbovePowLimit(period, mid + 1, hi, params)
         IN  IF upper # 0 THEN upper
             ELSE LastAbovePowLimit(period, lo, mid, params)

\* The loop of GetNextWorkRequired: back from the last block of the period
\* while the block has a pprev, is not at a multiple of the interval and has
\* the nBits of powLimit.  Position 1 is at a multiple of the interval, and
\* the loop ends there at the latest.
LastNonMinDifficulty(period, params) ==
    period[Max(1, LastAbovePowLimit(period, 2, Len(period), params))].nBits

\* A GetNextWorkRequired() that retargets after every block, over the part
\* of the period mined so far: what C11 rules out.
GetNextWorkEveryBlock(period, nHeight, blockTime, params) ==
    CalculateNextWorkRequired(Last(period), period[1].nTime, params)

\* GetNextWorkRequired(pindexLast, pblock, params): pindexLast is the last
\* block of period and has height nHeight, pblock has time blockTime.
GetNextWorkRequired(period, nHeight, blockTime, params) ==
    LET pindexLast == Last(period)
    IN  IF (nHeight + 1) % DifficultyAdjustmentInterval(params) # 0
        THEN IF params.fPowAllowMinDifficultyBlocks
             THEN IF blockTime > pindexLast.nTime + (params.nPowTargetSpacing * 2)
                  THEN params.powLimit
                  ELSE LastNonMinDifficulty(period, params)
             ELSE pindexLast.nBits
        ELSE LET nHeightFirst ==
                     nHeight - (DifficultyAdjustmentInterval(params) - 1)
                 pindexFirst ==
                     period[nHeightFirst - (nHeight - Len(period) + 1) + 1]
             IN  CalculateNextWorkRequired(pindexLast, pindexFirst.nTime, params)

\* The chain grows through MaxRtPeriods adjustment intervals.
MaxRtPeriods == 2

\* The time the miners take for a period, in hundredths of the target
\* timespan, and how they spread it: evenly, or all of it before the second
\* block of the period and a second for each block after.
PlanPercents == {85, 100, 105}

Plans(net) ==
    { [span  |-> (Params(net).nPowTargetTimespan \div 100) * pc,
       shape |-> sh] :
        pc \in PlanPercents,
        sh \in (IF Params(net).fPowAllowMinDifficultyBlocks
                THEN {"even", "burst"} ELSE {"even"}) }

\* The time of the block at position pos >= 1 of a period that began at
\* time t0.
PlannedTime(plan, t0, pos, interval) ==
    IF plan.shape = "burst" THEN t0 + plan.span - (interval - 1 - pos)
    ELSE IF pos = interval - 1 THEN t0 + plan.span
    ELSE t0 + (pos * (plan.span \div (interval - 1)))

\* The timespans CalculateNextWorkRequired is tried with: around the two
\* thresholds, none, twice the target, and a first block after the last.
SpanSamples(params) ==
    LET t == params.nPowTargetTimespan
    IN  { -1, 0, 2 * t,
          (9 * (t \div 10)) - 1, 9 * (t \div 10), (9 * (t \div 10)) + 1,
          (10333 * (t \div 100)) \div 100, ((10333 * (t \div 100)) \div 100) + 1 }

NoCall == [op |-> "none"]

\* A block is mined on the tip with the nBits GetNextWorkRequired asks for
\* and the time of the plan; the first block of a period is one target
\* spacing after the tip, and the miners plan the period anew.
RtMineBlock ==
    LET params   == Params(rtNet)
        interval == DifficultyAdjustmentInterval(params)
        pos      == (rtHeight + 1) % interval
        nTime    == IF pos = 0
                    THEN Last(rtPeriod).nTime + params.nPowTargetSpacing
                    ELSE PlannedTime(rtPlan, rtPeriod[1].nTime, pos, interval)
        nBits    == GetNextWorkRequired(rtPeriod, rtHeight, nTime, params)
        block    == [nBits |-> nBits, nTime |-> nTime]
    IN  /\ rtHeight + 1 <= MaxRtPeriods * interval
        /\ rtHeight' = rtHeight + 1
        /\ rtPeriod' = IF pos = 0 THEN <<block>> ELSE Append(rtPeriod, block)
        /\ IF pos = 0 THEN rtPlan' \in Plans(rtNet) ELSE rtPlan' = rtPlan
        /\ rtLast' = [op       |-> "mine",
                      boundary |-> pos = 0,
                      nBits    |-> Last(rtPeriod).nBits,
                      span     |-> Last(rtPeriod).nTime - rtPeriod[1].nTime,
                      result   |-> nBits]
        /\ UNCHANGED <<rtNet, exceptRetarget>>

\* CalculateNextWorkRequired is called for the tip that ends a period, with
\* a time of the first block of the period.
RtCalculate ==
    LET params == Params(rtNet)
    IN  /\ (rtHeight + 1) % DifficultyAdjustmentInterval(params) = 0
        /\ rtLast.op # "calc"
        /\ \E span \in SpanSamples(params) :
              rtLast' = [op       |-> "calc",
                         boundary |-> TRUE,
                         nBits    |-> Last(rtPeriod).nBits,
                         span     |-> span,
                         result   |-> CalculateNextWorkRequired(
                                          Last(rtPeriod),
                                          Last(rtPeriod).nTime - span, params)]
        /\ UNCHANGED <<rtNet, rtHeight, rtPeriod, rtPlan, exceptRetarget>>

(***************************************************************************)
(* GetBlockProof (chain.cpp).  The doubles of the code are computed in     *)
(* fixed point: for every bit length up to the width of nP1 the integer    *)
(* part and the first ten fractional bits of a = sqrt(2 b log2(b)) are     *)
(* those of the double the code computes.  An arith_uint256 of the form    *)
(* mant * 2^exp is the record [mant, exp].                                 *)
(***************************************************************************)
\* The width of uint1024, the type of nP1.
NP1Width == 1024

\* x * x for an x with 28 fractional bits, 1 <= x < 2, rounded down.
SquareFix(x) ==
    LET xh == x \div 16384
        xl == x % 16384
    IN  (xh * xh) + (((2 * xh * xl) + ((xl * xl) \div 16384)) \div 16384)

\* The first n fractional bits of log2(x), x with 28 fractional bits.
RECURSIVE Log2Frac(_, _)
Log2Squared(y, n) ==
    IF y >= Pow2(29) THEN Pow2(n - 1) + Log2Frac(y \div 2, n - 1)
    ELSE Log2Frac(y, n - 1)

Log2Frac(x, n) == IF n = 0 THEN 0 ELSE Log2Squared(SquareFix(x), n)

\* log2(b) with 27 fractional bits, b >= 1.
Log2Fix(b) ==
    LET e == BitLen(b) - 1
    IN  (e * Pow2(27)) + Log2Frac(b * Pow2(28 - e), 27)

\* floor(sqrt(n)).
ISqrt(n) == CHOOSE k \in 0..n : k * k <= n /\ (k + 1) * (k + 1) > n

\* floor(1024 * aFra), given b, the halves lh, ll of log2(b) * 2^27 and aInt:
\* the greatest t with (1024 aInt + t)^2 <= 2^20 * 2 b log2(b).
TailOf(b, lh, ll, aInt) ==
    LET R == (256 * ((b * lh) - (aInt * aInt * 4096))) + ((b * ll) \div 64)
    IN  CHOOSE t \in 0..1023 :
            /\ (2048 * aInt * t) + (t * t) <= R
            /\ t = 1023 \/ (2048 * aInt * (t + 1)) + ((t + 1) * (t + 1)) > R

\* aInt = floor(a) and floor(1024 * aFra) for a = sqrt(2 b log2(b)).
ProofExponent(b, lh, ll) ==
    LET aInt == ISqrt(((b * lh) + ((b * ll) \div 16384)) \div 4096)
    IN  [aInt |-> aInt, tail |-> TailOf(b, lh, ll, aInt)]

\* A GetBlockProof that shifts the tail as far as the leading one, (t1 <<
\* aInt) + (t2 << aInt): what C13 rules out.
GetBlockProofTailUnscaled(block) ==
    LET nP1_bitsize == block.nP1.bits
        L == Log2Fix(nP1_bitsize)
        a == ProofExponent(nP1_bitsize, L \div 16384, L % 16384)
    IN  IF nP1_bitsize < 16 THEN [mant |-> 0, exp |-> 0]
        ELSE [mant |-> 1 + a.tail, exp |-> a.aInt]

\* GetBlockProof(block): (t1 << aInt) + (t2 << (aInt - 11)), which is
\* (2048 + t2) << (aInt - 11).
GetBlockProof(block) ==
    LET nP1_bitsize == block.nP1.bits
        L == Log2Fix(nP1_bitsize)
        a == ProofExponent(nP1_bitsize, L \div 16384, L % 16384)
    IN  IF nP1_bitsize < 16 THEN [mant |-> 0, exp |-> 0]
        ELSE [mant |-> 2048 + a.tail, exp |-> a.aInt - 11]

\* arith_uint256 operator<= on two values mant * 2^exp, mant < 2^13.
WorkLeq(v, w) ==
    IF v.exp >= w.exp
    THEN v.mant = 0 \/ (v.exp - w.exp < 13
                          /\ v.mant * Pow2(v.exp - w.exp) <= w.mant)
    ELSE w.mant # 0 /\ (w.exp - v.exp >= 13
                          \/ v.mant <= w.mant * Pow2(w.exp - v.exp))

\* How much longer the nP1 of the second block is.
ProofSteps == {0, 1, 2, 128, 256}

\* The bits of nP1 below its top bit: all clear or all set.
LowBits == {"clear", "set"}

NoProof == [called |-> FALSE]

\* GetBlockProof is called for a block index.
ProofOfBlock ==
    /\ ~pfLo.called
    /\ \E b \in 0..NP1Width, low \in LowBits :
          LET block == [nP1 |-> [bits |-> b, low |-> low]]
          IN  pfLo' = [called |-> TRUE, nP1 |-> block.nP1,
                       work |-> GetBlockProof(block)]
    /\ UNCHANGED <<pfHi, exceptProof>>

\* GetBlockProof is called for a block index whose nP1 is as long or longer.
ProofOfLongerBlock ==
    /\ pfLo.called /\ ~pfHi.called
    /\ \E d \in ProofSteps, low \in LowBits :
          LET block == [nP1 |-> [bits |-> pfLo.nP1.bits + d, low |-> low]]
          IN  /\ block.nP1.bits <= NP1Width
              /\ pfHi' = [called |-> TRUE, nP1 |-> block.nP1,
                          work |-> GetBlockProof(block)]
    /\ UNCHANGED <<pfLo, exceptProof>>

\* ---------------------------------------------------------------------
\* Deadpool scripts, byte by byte (deadpool.cpp; CScript of script.h)
\* ---------------------------------------------------------------------

\* ---------------------------------------------------------------------
\* gHash from the header to W, with several calls under way (pow.cpp)
\* ---------------------------------------------------------------------

\* ---------------------------------------------------------------------
\* The bytes of w that gHash's truncation step touches (pow.cpp).  w is a
\* uint1024: bytes 0..127.
\* ---------------------------------------------------------------------

NoTrunc == [pc |-> "none", nBits |-> 0, asserted |-> TRUE, accessed |-> {},
            outcome |-> "none"]

\* The indexes of w a call with nBits reads or writes once the assertion
\* has held: memset and memcpy from byte 0, the byte that is trimmed, and
\* the byte that gets the top bit.
TruncationBytes(nBits) ==
    LET allBytes == nBits \div 8
        remBytes == nBits % 8
    IN  (0..127)
          \cup (0..(Min(128, allBytes + 1) - 1))
          \cup {allBytes}
          \cup {IF remBytes = 0 THEN allBytes - 1 ELSE allBytes}

\* assert(allBytes + 1 <= 128).
TruncationAssert(nBits) == (nBits \div 8) + 1 <= 128

\* How the call ends: the assertion aborts the process; a write outside w
\* has no defined outcome, it may go unnoticed or end the process.
TruncationOutcomes(nBits) ==
    IF ~TruncationAssert(nBits) THEN {"assert"}
    ELSE IF TruncationBytes(nBits) \subseteq 0..127 THEN {"returned"}
    ELSE {"returned", "crash"}

\* uint16_t nBits = block.nBits.
HeaderBits == 0..65535

\* gHash reaches its truncation step with the nBits of the header.
GHashTruncation ==
    /\ tcCall.pc = "rounds"
    /\ \E outcome \in TruncationOutcomes(tcCall.nBits) :
          tcCall' = [tcCall EXCEPT
                       !.pc = "done",
                       !.asserted = TruncationAssert(tcCall.nBits),
                       !.accessed = IF TruncationAssert(tcCall.nBits)
                                    THEN TruncationBytes(tcCall.nBits) \ (0..127)
                                    ELSE {},
                       !.outcome = outcome]
    /\ UNCHANGED exceptTrunc


\* memcpy of an integer of nbytes bytes, low byte first.
RECURSIVE LEBytes(_, _)
LEBytes(x, nbytes) ==
    IF nbytes = 0 THEN <<>> ELSE <<x % 256>> \o LEBytes(x \div 256, nbytes - 1)

\* salt = nVersion + nBits + nTime.
GSalt(block) ==
    LEBytes(block.nVersion, 4) \o LEBytes(block.nBits, 2) \o LEBytes(block.nTime, 4)

\* A pass that takes the factor nP1 where the nonce belongs: what C16 rules
\* out.
GPassWithFactor(block) ==
    LEBytes(block.hashPrevBlock, 32) \o LEBytes(block.hashMerkleRoot, 32)
      \o LEBytes(block.nP1, 8)

\* pass = hashPrevBlock + hashMerkleRoot + nNonce.
GPass(block) ==
    LEBytes(block.hashPrevBlock, 32) \o LEBytes(block.hashMerkleRoot, 32)
      \o LEBytes(block.nNonce, 8)

\* The derived buffer is 32 words of 8 bytes (uint64_t* hDigest).
DerivedWords == 32

\* A digest of nwords words of the input: the library functions of the
\* cocktail are told apart by their tag.
RECURSIVE DigestFrom(_, _, _, _)
DigestFrom(tag, h, i, nwords) ==
    IF i > nwords THEN <<>>
    ELSE <<Sha256(<<tag, i, h>>)>> \o DigestFrom(tag, h, i + 1, nwords)

Digest(tag, input, nwords) == DigestFrom(tag, Sha256(input), 1, nwords)

\* scrypt.DeriveKey(derived, 256, pass, passLen, salt, saltLen, N, r, p).
DeriveKey(pass, salt) == Digest(1, pass \o salt, DerivedWords)

\* The three functions give 64 bytes: 8 words.
BLAKE2b(input) == Digest(2, input, 8)

SHA3_512(input) == Digest(3, input, 8)

Whirlpool(input) == Digest(4, input, 8)

\* The bits set in x.
RECURSIVE PopWord(_)
PopWord(x) == IF x = 0 THEN 0 ELSE (x % 2) + PopWord(x \div 2)

\* popcnt(data, nbytes), over the words of data.
RECURSIVE popcnt(_)
popcnt(data) == IF data = <<>> THEN 0 ELSE PopWord(data[1]) + popcnt(Tail(data))

RECURSIVE XorWord(_, _)
XorWord(a, b) ==
    IF a = 0 THEN b
    ELSE IF b = 0 THEN a
    ELSE ((a + b) % 2) + 2 * XorWord(a \div 2, b \div 2)

\* hDigest[jj] ^= data[jj]: data is the exported number, zero above it.
RECURSIVE XorInto(_, _)
XorInto(derived, data) ==
    IF data = <<>> THEN derived
    ELSE <<XorWord(derived[1], data[1])>> \o XorInto(Tail(derived), Tail(data))

\* Final((byte*)&derived.data()[8 * (at - 1)]).
WriteAt(derived, at, digest) ==
    SubSeq(derived, 1, at - 1) \o digest
      \o SubSeq(derived, at + Len(digest), DerivedWords)

\* prime = nextprime(floor(sqrt(floor(sqrt(M))))), M the derived buffer.
GPrime(derived) == Digest(5, derived, 4)

\* A number below the prime: in the model, four words of four bits each,
\* so that the loop "Branch away" runs for at most 16 iterations.
RECURSIVE BelowPrime(_)
BelowPrime(digest) ==
    IF digest = <<>> THEN <<>> ELSE <<digest[1] % 16>> \o BelowPrime(Tail(digest))

\* a^(-1) mod prime, a = floor(sqrt(M)).
AInverse(derived) == BelowPrime(Digest(6, derived, 4))

\* mpz_powm_ui(a_inverse, a_inverse, irounds, prime).
PowM(a_inverse, irounds, prime) ==
    BelowPrime(Digest(7, a_inverse \o <<irounds>> \o prime, 4))

\* A selector that counts the bits of all 256 bytes of the buffer: what C23
\* describes.
BranchOfWholeBuffer(derived) == popcnt(derived)

\* br = popcnt(derived.data(), sizeof(derived.data())): derived.data() is a
\* byte*, its size is that of a pointer, 8 bytes, so the bits counted are
\* those of the first word of the buffer.
BranchOf(derived) == PopWord(derived[1])

\* The name of the function an iteration runs for br.
BranchPrimitive(br) ==
    IF br % 3 = 0 THEN "SHA3_512" ELSE IF br % 3 = 2 THEN "BLAKE2b" ELSE "Whirlpool"

\* The hash of an iteration: SHA3-512 of bytes 0..127 written at byte 0,
\* BLAKE2b of bytes 128..255 written at byte 192, or Whirlpool of all 256
\* bytes written at byte 112.
BranchHash(x, br) ==
    IF br % 3 = 0
    THEN WriteAt(x, 1, SHA3_512(SubSeq(x, 1, 16)))
    ELSE IF br % 3 = 2
         THEN WriteAt(x, 25, BLAKE2b(SubSeq(x, 17, 32)))
         ELSE WriteAt(x, 15, Whirlpool(x))

\* The loop "Branch away": jj iterations are left.
RECURSIVE BranchAway(_, _, _, _, _)
BranchAway(derived, a_inverse, prime, irounds, jj) ==
    IF jj = 0 THEN derived
    ELSE LET Hashed(br, ainv) ==
                 BranchAway(BranchHash(XorInto(derived, ainv), br), ainv, prime,
                            irounds, jj - 1)
             Powered(br) == Hashed(br, PowM(a_inverse, irounds, prime))
         IN  IF BranchOf(derived) % 3 = 0 THEN Powered(0)
             ELSE IF BranchOf(derived) % 3 = 2 THEN Powered(2)
             ELSE Powered(1)

\* No iteration of the inner loop is looked at.
NoIter == [pc |-> "none", derived |-> <<>>, a_inverse |-> <<>>,
           primitive |-> "none", after |-> <<>>]

\* A buffer with the word first at the front and the word other at index at.
BranchBuffer(first, at, other) ==
    [i \in 1..DerivedWords |-> IF i = 1 THEN first ELSE IF i = at THEN other ELSE 0]

\* Buffers at the top of an iteration: the first 8 bytes and one of the
\* words behind them vary.
BranchBuffers ==
    { BranchBuffer(first, at, other) :
        first \in {0, 1, 3, 7}, at \in {2, 17, 32}, other \in {0, 1, 3} }

\* The numbers a_inverse of an iteration.
BranchInverses == { <<a, 0, 0, b>> : a \in {0, 5}, b \in {0, 1} }

\* One iteration of the loop "Branch away": br is taken, a_inverse is raised
\* and xored into the buffer, and the buffer is hashed as br says.
BranchIteration ==
    /\ brIter.pc = "top"
    /\ brIter' = [brIter EXCEPT
                    !.pc = "bottom",
                    !.primitive = BranchPrimitive(BranchOf(brIter.derived)),
                    !.after = BranchAway(brIter.derived, brIter.a_inverse,
                                         GPrime(brIter.derived), 1, 1)]
    /\ UNCHANGED exceptBranch


\* One round of the loop over params.hashRounds.
GHashRound(derived, salt) ==
    LET HashHalf(half) ==
            IF popcnt(half) % 2 = 0 THEN BLAKE2b(half) ELSE SHA3_512(half)
        Grunt(d3, prime, a_inverse, irounds) ==
            BranchAway(XorInto(d3, a_inverse), a_inverse, prime, irounds, irounds)
        Math(d3, a_inverse) ==
            Grunt(d3, GPrime(d3), a_inverse, popcnt(a_inverse) % 128)
        Halves(d1, first, second) ==
            Math(WriteAt(WriteAt(d1, 1, first), 17, second),
                 AInverse(WriteAt(WriteAt(d1, 1, first), 17, second)))
        Scrypted(d1) ==
            Halves(d1, HashHalf(SubSeq(d1, 1, 16)), HashHalf(SubSeq(d1, 17, 32)))
    IN  Scrypted(DeriveKey(derived, salt))

\* The bytes of the derived buffer the truncation reads.
DerivedLow(derived) == derived[1] % 16777216

\* gHash(block, params), from the header to W.
RECURSIVE GHashRounds(_, _, _)
GHashRounds(derived, salt, rounds) ==
    IF rounds = 0 THEN derived
    ELSE GHashRounds(GHashRound(derived, salt), salt, rounds - 1)

gHashOfHeader(block, params) ==
    gHash(DerivedLow(GHashRounds(DeriveKey(GPass(block), GSalt(block)),
                                 GSalt(block), params.hashRounds)),
          block.nBits)

\* Headers handed to gHash, and the hashRounds of the parameters.
GHeaders ==
    { [hashPrevBlock |-> prev, hashMerkleRoot |-> 7, nNonce |-> nonce,
       nVersion |-> 1, nBits |-> bits, nTime |-> 1000, nP1 |-> p1,
       wOffset |-> off, hashRounds |-> rounds] :
        prev \in {1, 2}, nonce \in {0, 1}, bits \in {8, 13}, p1 \in {0, 11},
        off \in {0, -3}, rounds \in {1, 2} }

\* Headers of a second caller: its fields that are hashed are those of a
\* header of the first caller, or not.
GOtherHeaders ==
    { h \in GHeaders : h.nNonce = 0 /\ h.nBits = 13 /\ h.hashRounds = 1
                       /\ h.nP1 = 11 /\ h.wOffset = -3 }

GThreads == {1, 2}

\* A call of gHash that has not started: its locals are not set.
GCall(h) == [pc |-> "call", block |-> h, salt |-> <<>>, derived |-> <<>>,
             round |-> 0, W |-> 0]

\* gHash copies the header fields and derives the first buffer.
GHashBegin(t) ==
    /\ ghRun[t].pc = "call"
    /\ ghRun' = [ghRun EXCEPT ![t] =
                    [@ EXCEPT !.pc = "rounds",
                              !.salt = GSalt(ghRun[t].block),
                              !.derived = DeriveKey(GPass(ghRun[t].block),
                                                    GSalt(ghRun[t].block))]]
    /\ UNCHANGED exceptGRun

\* One round of the loop.
GHashRoundStep(t) ==
    /\ ghRun[t].pc = "rounds"
    /\ ghRun[t].round < ghRun[t].block.hashRounds
    /\ ghRun' = [ghRun EXCEPT ![t] =
                    [@ EXCEPT !.round = @ + 1,
                              !.derived = GHashRound(ghRun[t].derived, ghRun[t].salt)]]
    /\ UNCHANGED exceptGRun

\* The loop is over: the buffer is cut to nBits bits and returned.
GHashTruncate(t) ==
    /\ ghRun[t].pc = "rounds"
    /\ ghRun[t].round >= ghRun[t].block.hashRounds
    /\ ghRun' = [ghRun EXCEPT ![t] =
                    [@ EXCEPT !.pc = "done",
                              !.W = gHash(DerivedLow(ghRun[t].derived),
                                          ghRun[t].block.nBits)]]
    /\ UNCHANGED exceptGRun


OP_PUSHDATA1 == 76

OP_PUSHDATA2 == 77

OP_PUSHDATA4 == 78

OP_TRUE == 81

OP_DROP == 117

OP_ANNOUNCEVERIFY == 184

OP_CHECKDIVVERIFY == 185

\* The marker byte of an announcement; the parsers below start behind it.
OP_ANNOUNCE == 186

MAX_SCRIPT_ELEMENT_SIZE == 520

\* ReadLE16 / ReadLE32 at script position pos (positions count from 1).
ReadLE(script, pos, nbytes) ==
    LET RECURSIVE Rd(_)
        Rd(i) == IF i >= nbytes THEN 0 ELSE script[pos + i] + 256 * Rd(i + 1)
    IN  Rd(0)

\* CScript::operator<<(const std::vector<unsigned char>& b).
PushData(script, b) ==
    LET prefix == IF Len(b) < OP_PUSHDATA1 THEN <<Len(b)>>
                  ELSE IF Len(b) <= 255 THEN <<OP_PUSHDATA1, Len(b)>>
                  ELSE IF Len(b) <= 65535
                       THEN <<OP_PUSHDATA2, Len(b) % 256, Len(b) \div 256>>
                  ELSE <<OP_PUSHDATA4, Len(b) % 256, (Len(b) \div 256) % 256,
                         (Len(b) \div 65536) % 256, Len(b) \div 16777216>>
    IN  script \o prefix \o b

\* CScript::GetOp(pc, opcode, vch) with pc at position pos: whether an
\* opcode was read, and the data it pushes.
GetOp(script, pos) ==
    IF pos > Len(script) THEN [ok |-> FALSE, data |-> <<>>]
    ELSE LET opcode == script[pos]
             left   == Len(script) - pos
             nlen   == IF opcode < OP_PUSHDATA1 THEN 0
                       ELSE IF opcode = OP_PUSHDATA1 THEN 1
                       ELSE IF opcode = OP_PUSHDATA2 THEN 2 ELSE 4
         IN  IF opcode > OP_PUSHDATA4 THEN [ok |-> TRUE, data |-> <<>>]
             ELSE IF left < nlen THEN [ok |-> FALSE, data |-> <<>>]
             ELSE LET nSize == IF opcode < OP_PUSHDATA1 THEN opcode
                               ELSE ReadLE(script, pos + 1, nlen)
                      from  == pos + 1 + nlen
                  IN  IF left - nlen < nSize THEN [ok |-> FALSE, data |-> <<>>]
                      ELSE [ok |-> TRUE,
                            data |-> SubSeq(script, from, from + nSize - 1)]

\* The entry script: s << N << OP_CHECKDIVVERIFY << OP_DROP
\* << OP_ANNOUNCEVERIFY << OP_DROP << OP_DROP << OP_TRUE.
EntryScript(dataN) ==
    PushData(<<>>, dataN) \o
    <<OP_CHECKDIVVERIFY, OP_DROP, OP_ANNOUNCEVERIFY, OP_DROP, OP_DROP, OP_TRUE>>

\* The announcement script: s << OP_ANNOUNCE << claim hash << N.
AnnounceScript(claimHash, dataN) ==
    PushData(PushData(<<OP_ANNOUNCE>>, claimHash), dataN)

\* GetEntryN(txout, dataN) on the bytes of txout.scriptPubKey.
GetEntryNOfScript(scriptPubKey) == GetOp(scriptPubKey, 1).data

\* GetEntryNHash(txout) on the bytes of txout.scriptPubKey.
GetEntryNHashOfScript(scriptPubKey) == HashNValue(GetEntryNOfScript(scriptPubKey))

\* A ReadN that starts one byte early, on the last byte of the claim hash:
\* what C15 rules out.
ReadNOneByteEarly(scriptPubKey) ==
    LET op == GetOp(scriptPubKey, 34)
    IN  [ok |-> op.ok /\ Len(op.data) <= MAX_SCRIPT_ELEMENT_SIZE, n |-> op.data]

\* CAnnounce::ReadN(n) on the bytes of out.scriptPubKey: begin() + 34.
ReadNOfScript(scriptPubKey) ==
    LET op == GetOp(scriptPubKey, 35)
    IN  [ok |-> op.ok /\ Len(op.data) <= MAX_SCRIPT_ELEMENT_SIZE, n |-> op.data]

\* CAnnounce::NHash() on the bytes of out.scriptPubKey.
NHashOfScript(scriptPubKey) ==
    LET r == ReadNOfScript(scriptPubKey)
    IN  IF ~r.ok THEN ZERO ELSE HashNValue(r.n)

\* CAnnounce::ClaimHash() on the bytes of out.scriptPubKey: begin() + 1.
ClaimHashOfScript(scriptPubKey) == GetOp(scriptPubKey, 2).data

\* The encodings of N = 319 of the deadpool tests.
valid_N == ZeroBytes(18) \o <<1, 63>>

extrapadded_N == ZeroBytes(20) \o <<1, 63>>

unpadded_N == <<1, 63>>

\* valid_N_hash: the constant of the tests is the sha256 of the bytes 01 3f.
valid_N_hash == Sha256(<<1, 63>>)

\* dummy_hash of the tests, and two more 32-byte claim hashes.
ClaimHashes ==
    { <<1>> \o ZeroBytes(30) \o <<1>>, ZeroBytes(32), [i \in 1..32 |-> 255] }

\* Byte strings N: the encodings of the tests, short strings, and strings
\* at the lengths where the push prefix changes, up to the largest element.
PushLens ==
    {20, 75, 76, 255, 256, MAX_SCRIPT_ELEMENT_SIZE, MAX_SCRIPT_ELEMENT_SIZE + 1}

ScriptNs ==
    {valid_N, extrapadded_N, unpadded_N, <<>>, <<0>>, <<1>>, <<63, 1>>}
      \cup { [i \in 1..len |-> fill] : len \in PushLens, fill \in {0, 76, 255} }
      \cup { [i \in 1..len |-> IF i = len THEN 1 ELSE 0] : len \in PushLens }

\* Leading zero bytes added to N.
Paddings == {1, 2}

NoParse == [op |-> "none"]

\* An entry script carrying N is hashed, and so is one carrying N padded.
HashEntry ==
    /\ scRes.op = "none"
    /\ \E pad \in Paddings :
          scRes' = [op         |-> "entry",
                    pad        |-> pad,
                    hashN      |-> HashNValue(scN),
                    entryHash  |-> GetEntryNHashOfScript(EntryScript(scN)),
                    paddedHash |-> GetEntryNHashOfScript(
                                       EntryScript(ZeroBytes(pad) \o scN))]
    /\ UNCHANGED <<scN, scHash, exceptScript>>

\* An announcement script carrying the claim hash and N is parsed.
ParseAnnounce ==
    /\ scRes.op = "none"
    /\ LET s == AnnounceScript(scHash, scN)
           r == ReadNOfScript(s)
       IN  scRes' = [op        |-> "announce",
                     ClaimHash |-> ClaimHashOfScript(s),
                     readOk    |-> r.ok,
                     n         |-> r.n,
                     NHash     |-> NHashOfScript(s),
                     entryHash |-> GetEntryNHashOfScript(EntryScript(scN))]
    /\ UNCHANGED <<scN, scHash, exceptScript>>

\* ---------------------------------------------------------------------
\* Amounts (amount.h).  A CAmount is an int64_t; the model keeps it as the
\* integer it stands for, sign and magnitude bytes, least significant first.
\* ---------------------------------------------------------------------

\* ---------------------------------------------------------------------
\* Copies of a CScriptBignum (script/bignum.h).  An object is its m_value,
\* its m_valid and what the limb pointer of m_value points to: limbs of its
\* own ("own"), the limbs of the source ("source"), no limbs ("null"),
\* memory that was never allocated ("wild"), or limbs that were freed
\* ("freed").
\* ---------------------------------------------------------------------

NoObject == [value |-> MpzZero, valid |-> FALSE, ptr |-> "absent"]

\* An object built by one of the constructors that initialise m_value.
Constructed(x) == [value |-> x.value, valid |-> x.valid, ptr |-> "own"]

\* What the storage of an object can hold before a constructor has written
\* it: the bits of the source (left by an earlier frame), a cleared
\* mpz_t, or anything else.
UninitializedStorage(n) ==
    { [value |-> n.value, valid |-> v, ptr |-> "source"] : v \in BOOLEAN }
      \cup { [value |-> MpzZero, valid |-> v, ptr |-> "null"] : v \in BOOLEAN }
      \cup { [value |-> g, valid |-> v, ptr |-> "wild"] :
               g \in {MpzZero, MpzSetSi(1), MpzSetSi(-7)}, v \in BOOLEAN }

\* A copy constructor that initialises the object from n.m_value: what C28
\* describes.
CopyOfValue(n, storage) == Constructed(n)

\* CScriptBignum(const CScriptBignum& n) { CScriptBignum(n.m_value); }: the
\* body builds a temporary from n.m_value and destroys it; m_value and
\* m_valid of the object under construction are not written.
CopyConstructor(n, storage) == storage

\* ~CScriptBignum(): mpz_clear(m_value) frees what the limb pointer points
\* to.  The result is the state of the other object and of the process.
Destructor(obj, other) ==
    CASE obj.ptr = "own"    -> [other |-> other, run |-> "ok"]
      [] obj.ptr = "null"   -> [other |-> other, run |-> "ok"]
      [] obj.ptr = "source" ->
           IF other.ptr = "own"
           THEN [other |-> [other EXCEPT !.ptr = "freed"], run |-> "ok"]
           ELSE [other |-> other, run |-> "abort"]
      [] OTHER              -> [other |-> other, run |-> "abort"]

\* The objects that are copied: built from an integer or from bytes.
CopySources ==
    { Constructed(BignumFromInt(n)) : n \in (-3)..3 }
      \cup { Constructed(BignumFromBytes(t)) : t \in SeqsUpTo(ByteVals, MaxTail) }

\* CScriptBignum b(a).
CallCopyConstructor ==
    /\ cpOp = "none" /\ cpRun = "ok"
    /\ \E storage \in UninitializedStorage(cpSrc) :
          cpDst' = CopyConstructor(cpSrc, storage)
    /\ cpOp' = "copy"
    /\ UNCHANGED <<cpSrc, cpRun, exceptCopy>>

\* operator%: "return ret;" of the local ret.  The build either constructs
\* ret in the place of the result, or copy-constructs the result from ret
\* and destroys ret (the class has no move constructor).
CallOperatorModReturn ==
    /\ cpOp = "none" /\ cpRun = "ok"
    /\ \E elided \in BOOLEAN, storage \in UninitializedStorage(cpSrc) :
          IF elided
          THEN /\ cpDst' = cpSrc
               /\ cpOp' = "return elided"
               /\ UNCHANGED cpSrc
          ELSE /\ cpDst' = CopyConstructor(cpSrc, storage)
               /\ cpOp' = "return copied"
               /\ cpSrc' = [cpSrc EXCEPT !.ptr = "freed"]
    /\ UNCHANGED <<cpRun, exceptCopy>>

\* The copy goes out of scope.
CallDestructor ==
    /\ cpOp \in {"copy", "return copied"} /\ cpRun = "ok"
    /\ LET after == Destructor(cpDst, cpSrc)
       IN  /\ cpSrc' = after.other
           /\ cpRun' = after.run
    /\ cpOp' = IF cpOp = "copy" THEN "destroy" ELSE "destroy returned"
    /\ UNCHANGED <<cpDst, exceptCopy>>


\* The sum of two magnitudes and a carry.
RECURSIVE MagAddCarry(_, _, _)
MagAddCarry(a, b, carry) ==
    IF a = <<>> /\ b = <<>>
    THEN (IF carry = 0 THEN <<>> ELSE <<carry>>)
    ELSE LET x == (IF a = <<>> THEN 0 ELSE Head(a))
                    + (IF b = <<>> THEN 0 ELSE Head(b)) + carry
         IN  <<x % 256>> \o MagAddCarry(IF a = <<>> THEN a ELSE Tail(a),
                                        IF b = <<>> THEN b ELSE Tail(b),
                                        x \div 256)

MagAdd(a, b) == MagAddCarry(a, b, 0)

\* a - b - borrow for magnitudes a >= b, leading zeros kept.
RECURSIVE MagSubBorrow(_, _, _)
MagSubBorrow(a, b, borrow) ==
    IF a = <<>> THEN <<>>
    ELSE LET x == Head(a) - (IF b = <<>> THEN 0 ELSE Head(b)) - borrow
         IN  <<(x + 256) % 256>>
               \o MagSubBorrow(Tail(a), IF b = <<>> THEN b ELSE Tail(b),
                               IF x < 0 THEN 1 ELSE 0)

MagSub(a, b) == StripZeros(MagSubBorrow(a, b, 0))

\* a < b for magnitudes without leading zeros.
MagLess(a, b) ==
    \/ Len(a) < Len(b)
    \/ /\ Len(a) = Len(b)
       /\ \E i \in 1..Len(a) :
             /\ a[i] < b[i]
             /\ \A j \in (i + 1)..Len(a) : a[j] = b[j]

\* a * w + carry for a byte w.
RECURSIVE MagMulWord(_, _, _)
MagMulWord(a, w, carry) ==
    IF a = <<>> THEN (IF carry = 0 THEN <<>> ELSE <<carry>>)
    ELSE LET x == (Head(a) * w) + carry
         IN  <<x % 256>> \o MagMulWord(Tail(a), w, x \div 256)

RECURSIVE MagMulBytes(_, _)
MagMulBytes(a, b) ==
    IF b = <<>> THEN <<>>
    ELSE MagAdd(MagMulWord(a, Head(b), 0), <<0>> \o MagMulBytes(a, Tail(b)))

MagMul(a, b) == StripZeros(MagMulBytes(a, b))

\* The integers, for the arithmetic of amounts: zero has no sign.
IntOf(neg, mag) == [neg |-> neg /\ mag # <<>>, mag |-> mag]

IntAdd(x, y) ==
    IF x.neg = y.neg THEN IntOf(x.neg, MagAdd(x.mag, y.mag))
    ELSE IF MagLess(x.mag, y.mag) THEN IntOf(y.neg, MagSub(y.mag, x.mag))
    ELSE IntOf(x.neg, MagSub(x.mag, y.mag))

IntSub(x, y) == IntAdd(x, MpzNeg(y))

IntMul(x, y) == IntOf(x.neg # y.neg, MagMul(x.mag, y.mag))

IntLess(x, y) ==
    IF x.neg # y.neg THEN x.neg
    ELSE IF x.neg THEN MagLess(y.mag, x.mag)
    ELSE MagLess(x.mag, y.mag)

IntLeq(x, y) == x = y \/ IntLess(x, y)

\* 2^62, 2^63 and 2^64.
TwoTo62 == [neg |-> FALSE, mag |-> <<0, 0, 0, 0, 0, 0, 0, 64>>]

TwoTo63 == [neg |-> FALSE, mag |-> <<0, 0, 0, 0, 0, 0, 0, 128>>]

TwoTo64 == [neg |-> FALSE, mag |-> <<0, 0, 0, 0, 0, 0, 0, 0, 1>>]

INT64_MAX == IntSub(TwoTo63, MpzSetSi(1))

INT64_MIN == MpzNeg(TwoTo63)

\* The value of a uint64_t: x modulo 2^64.
ToUint64(x) ==
    LET low == IntOf(FALSE, StripZeros(SubSeq(x.mag, 1, Min(8, Len(x.mag)))))
    IN  IF x.neg /\ low.mag # <<>> THEN IntSub(TwoTo64, low) ELSE low

\* The value of an int64_t a uint64_t converts to.
ToInt64(x) ==
    LET u == ToUint64(x)
    IN  IF IntLess(u, TwoTo63) THEN u ELSE IntSub(u, TwoTo64)

\* static const CAmount COIN = 100000000.
COIN == MpzSetSi(100000000)

\* 46116860184ULL.
MaxMoneyCoins ==
    IntAdd(IntMul(MpzSetSi(461168), MpzSetSi(100000)), MpzSetSi(60184))

\* static const CAmount MAX_MONEY = 46116860184ULL * COIN: an unsigned
\* product, converted to CAmount.
MAX_MONEY == ToInt64(ToUint64(IntMul(MaxMoneyCoins, COIN)))

\* A MoneyRange() that leaves MAX_MONEY itself out.
MoneyRangeBelowMax(nValue) ==
    IntLeq(MpzZero, nValue) /\ IntLess(nValue, MAX_MONEY)

\* MoneyRange(nValue).
MoneyRange(nValue) == IntLeq(MpzZero, nValue) /\ IntLeq(nValue, MAX_MONEY)

\* The amounts of the model are at most this far from one of AmountBases.
AmountSpan == 8

\* 0, COIN, MAX_MONEY, MAX_MONEY + COIN, 2^62, the largest multiple of COIN
\* below 2^63, and the two ends of int64_t.
AmountBases ==
    {MpzZero, COIN, MAX_MONEY, IntAdd(MAX_MONEY, COIN),
     TwoTo62,
     IntMul(IntAdd(MaxMoneyCoins, MaxMoneyCoins), COIN),
     INT64_MAX, INT64_MIN}

AmountInputs ==
    { v \in { IntAdd(base, MpzSetSi(d)) :
                base \in AmountBases, d \in (-AmountSpan)..AmountSpan } :
        IntLeq(INT64_MIN, v) /\ IntLeq(v, INT64_MAX) }

\* MoneyRange is called with the amount.
CallMoneyRange ==
    /\ amtOk = "none"
    /\ amtOk' = IF MoneyRange(amtV) THEN "true" ELSE "false"
    /\ UNCHANGED <<amtV, exceptAmount>>

\* ---------------------------------------------------------------------
\* The deadpool claim RPCs (rpc/deadpool.cpp)
\* ---------------------------------------------------------------------

\* A decimal string is the sequence of its characters.
DecimalDigits == <<"0", "1", "2", "3", "4", "5", "6", "7", "8", "9">>

DigitValue(c) == (CHOOSE d \in 1..10 : DecimalDigits[d] = c) - 1

\* mag * 10 + carry on a magnitude of bytes, least significant first.
RECURSIVE MagMul10Add(_, _)
MagMul10Add(mag, carry) ==
    IF mag = <<>> THEN (IF carry = 0 THEN <<>> ELSE <<carry>>)
    ELSE <<((mag[1] * 10) + carry) % 256>>
           \o MagMul10Add(Tail(mag), ((mag[1] * 10) + carry) \div 256)

RECURSIVE MagOfDigits(_, _)
MagOfDigits(digits, mag) ==
    IF digits = <<>> THEN mag
    ELSE MagOfDigits(Tail(digits), MagMul10Add(mag, DigitValue(digits[1])))

\* mpz_init_set_str(m_value, decimal, 10): 0 and the value, or -1 and zero.
MpzInitSetStr(decimal) ==
    LET chars  == SelectSeq(decimal, LAMBDA c : c # " ")
        neg    == chars # <<>> /\ chars[1] = "-"
        digits == IF neg THEN Tail(chars) ELSE chars
        ok     == /\ digits # <<>>
                  /\ \A i \in 1..Len(digits) :
                        \E d \in 1..10 : DecimalDigits[d] = digits[i]
    IN  IF ~ok THEN [import_result |-> -1, value |-> MpzZero]
        ELSE LET mag == MagOfDigits(digits, <<>>)
             IN  [import_result |-> 0,
                  value |-> [neg |-> neg /\ mag # <<>>, mag |-> mag]]

\* CScriptBignum(const std::string decimal).
BignumFromDecimal(decimal) ==
    LET r == MpzInitSetStr(decimal)
    IN  [value |-> r.value, valid |-> r.import_result = 0]

\* The magnitude modulo a divisor d > 0 that fits a machine word.
RECURSIVE MagMod(_, _)
MagMod(mag, d) ==
    IF mag = <<>> THEN 0 ELSE ((MagMod(Tail(mag), d) * 256) + mag[1]) % d

\* The divisor as a machine word: the model keeps divisors below 2^16.
RECURSIVE MagWord(_)
MagWord(mag) == IF mag = <<>> THEN 0 ELSE mag[1] + 256 * MagWord(Tail(mag))

\* mpz_mod(mod, n, d): the non-negative remainder, whatever the sign of d;
\* GMP divides by zero, and the process gets the signal SIGFPE, when d is
\* zero.
MpzMod(n, d) ==
    IF d.mag = <<>> THEN [signal |-> "SIGFPE", value |-> MpzZero]
    ELSE LET w == MagWord(d.mag)
             r == MagMod(n.mag, w)
         IN  [signal |-> "none",
              value  |-> MpzSetSi(IF n.neg /\ r # 0 THEN w - r ELSE r)]

\* CScriptBignum::operator%.
BignumMod(lhs, rhs) == MpzMod(lhs, rhs)

\* DecodeDestination(address) and IsValidDestination.
RpcAddresses == {"addrA", "addrB", "notAnAddress"}

IsValidDestination(address) == address \in {"addrA", "addrB"}

\* GetScriptForDestination(destination): a script of its own for each
\* destination.
GetScriptForDestination(destination) ==
    <<0, 20>> \o [i \in 1..20 |-> IF destination = "addrA" THEN 170 ELSE 187]

\* A claim hash without the destination: what C18 rules out.
MakeClaimHashOfSolution(destination, solution) ==
    LEBytes(Sha256(<<Sha256(Serialize(solution)), Sha256(Serialize(solution))>>), 32)

\* MakeClaimHash(destination, solution, claim_hash): the 32 bytes of
\* sha256(sha256(p) || sha256(claim script)).
MakeClaimHash(destination, solution) ==
    LEBytes(Sha256(<<Sha256(Serialize(solution)),
                     Sha256(GetScriptForDestination(destination))>>), 32)

\* The length of the CompactSize that precedes a vector of n elements.
CompactSizeLen(n) == IF n < 253 THEN 1 ELSE IF n <= 65535 THEN 3 ELSE 5

\* The bytes of the inputs vin[i..] in a serialized transaction: outpoint,
\* scriptSig with its length, and nSequence.
RECURSIVE SerializedInputs(_, _)
SerializedInputs(vin, i) ==
    IF i > Len(vin) THEN 0
    ELSE 32 + 4 + CompactSizeLen(Len(vin[i].scriptSig)) + Len(vin[i].scriptSig)
           + 4 + SerializedInputs(vin, i + 1)

\* ss << rawTx; ss.size(), for a transaction that has no output yet:
\* nVersion, the inputs, the empty vector of outputs and nLockTime.
SerializedSize(vin) ==
    4 + CompactSizeLen(Len(vin)) + SerializedInputs(vin, 1) + 1 + 4

\* total_value - (tx_size * fee_rate): size_t times int64_t is an unsigned
\* product, the difference is unsigned, and it is converted to CAmount.
AmountAfterFee(total_value, tx_size, fee_rate) ==
    ToInt64(ToUint64(IntSub(ToUint64(total_value),
                            ToUint64(IntMul(MpzSetSi(tx_size), fee_rate)))))

\* createClaimTx(entries, total_value, solution, dest, fee_rate).
createClaimTx(entries, total_value, solution, dest, fee_rate) ==
    LET scriptSig == PushData(PushData(<<>>, MakeClaimHash(dest, solution)),
                              Serialize(solution))
        vin == [i \in 1..Len(entries) |->
                  [prevout |-> entries[i], scriptSig |-> scriptSig]]
        claim_script == GetScriptForDestination(dest)
        tx_size == SerializedSize(vin) + Len(claim_script) + 1 + 8 + 4
    IN  [vin  |-> vin,
         vout |-> <<[nValue |-> AmountAfterFee(total_value, tx_size, fee_rate),
                     scriptPubKey |-> claim_script]>>]

JSONRPCError(code, message) == [kind |-> "error", code |-> code, message |-> message]

\* The process dies in the call: no reply is sent.
RpcAbort == [kind |-> "SIGFPE"]

RpcTx(tx) == [kind |-> "tx", tx |-> tx]

nDeadpoolAnnounceMinBurn == 1000000

\* announcedeadpoolclaim(amount, address, entry_n, solution).
announcedeadpoolclaim(activated, amount, address, entry_n, solution) ==
    LET n == BignumFromDecimal(entry_n)
        p == BignumFromDecimal(solution)
    IN  IF ~activated
        THEN JSONRPCError("RPC_MISC_ERROR", "Deadpool feature is not yet activated")
        ELSE IF amount < nDeadpoolAnnounceMinBurn
        THEN JSONRPCError("RPC_MISC_ERROR", "Burn amount should be at least")
        ELSE IF ~IsValidDestination(address)
        THEN JSONRPCError("RPC_INVALID_ADDRESS_OR_KEY", "Invalid address")
        ELSE IF ~n.valid
        THEN JSONRPCError("RPC_MISC_ERROR", "Invalid decimal number provided for entry_n")
        ELSE IF CheckDeadpoolInteger(n.value) # "ok"
        THEN JSONRPCError("RPC_MISC_ERROR", "Invalid entry_n integer")
        ELSE IF ~p.valid
        THEN JSONRPCError("RPC_MISC_ERROR", "Invalid decimal number provided for solution")
        ELSE IF BignumMod(n.value, p.value).signal = "SIGFPE" THEN RpcAbort
        ELSE IF ~MpzEqSi(BignumMod(n.value, p.value).value, 0)
        THEN JSONRPCError("RPC_MISC_ERROR", "Solution is not valid for given entry")
        ELSE RpcTx([vin  |-> <<>>,
                    vout |-> <<[scriptPubKey |->
                                  AnnounceScript(MakeClaimHash(address, p.value),
                                                 Serialize(n.value))]>>])

\* CAmount feerate = 10.
feerate == MpzSetSi(10)

\* total_bounty += nValue.
AddBounty(total_bounty, nValue) == ToInt64(IntAdd(total_bounty, nValue))

\* The solution check and the transaction of the two claim calls.
ClaimReply(entries, total_bounty, entry_n, p, destination) ==
    LET n == BignumFromBytes(entry_n)
    IN  IF BignumMod(n.value, p.value).signal = "SIGFPE" THEN RpcAbort
        ELSE IF ~MpzEqSi(BignumMod(n.value, p.value).value, 0)
        THEN JSONRPCError("RPC_MISC_ERROR", "Solution is not valid for given entry")
        ELSE RpcTx(createClaimTx(entries, total_bounty, p.value, destination,
                                 feerate))

\* A claimdeadpooltxs loop that takes entries of any N: what C22 rules out.
RECURSIVE LookupInputsAnyN(_, _, _, _, _, _)
LookupInputsAnyN(inputs, coins, idx, entries, entry_n, total_bounty) ==
    IF idx > Len(inputs)
    THEN [kind |-> "entries", entries |-> entries, entry_n |-> entry_n,
          total_bounty |-> total_bounty]
    ELSE LET locator == inputs[idx]
         IN  IF locator.n < 0
             THEN JSONRPCError("RPC_DESERIALIZATION_ERROR", "vout cannot be negative")
             ELSE IF locator \notin DOMAIN coins
             THEN JSONRPCError("RPC_DESERIALIZATION_ERROR", "Unable to find entry for")
             ELSE IF coins[locator].type # "DEADPOOL_ENTRY"
             THEN JSONRPCError("RPC_DESERIALIZATION_ERROR", "TxOut is not a deadpool entry")
             ELSE LookupInputsAnyN(inputs, coins, idx + 1, Append(entries, locator),
                               IF entries = <<>> THEN GetEntryN(coins[locator])
                               ELSE entry_n,
                               AddBounty(total_bounty, coins[locator].nValue))

\* claimdeadpooltxs: the loop over the inputs from input idx on.  A reply
\* when an input is refused, else the entries, their N and their bounty.
RECURSIVE LookupInputs(_, _, _, _, _, _)
LookupInputs(inputs, coins, idx, entries, entry_n, total_bounty) ==
    IF idx > Len(inputs)
    THEN [kind |-> "entries", entries |-> entries, entry_n |-> entry_n,
          total_bounty |-> total_bounty]
    ELSE LET locator == inputs[idx]
         IN  IF locator.n < 0
             THEN JSONRPCError("RPC_DESERIALIZATION_ERROR", "vout cannot be negative")
             ELSE IF locator \notin DOMAIN coins
             THEN JSONRPCError("RPC_DESERIALIZATION_ERROR", "Unable to find entry for")
             ELSE IF coins[locator].type # "DEADPOOL_ENTRY"
             THEN JSONRPCError("RPC_DESERIALIZATION_ERROR", "TxOut is not a deadpool entry")
             ELSE IF entries # <<>> /\ GetEntryN(coins[locator]) # entry_n
             THEN JSONRPCError("RPC_DESERIALIZATION_ERROR", "Entry mismatches other entries")
             ELSE LookupInputs(inputs, coins, idx + 1, Append(entries, locator),
                               IF entries = <<>> THEN GetEntryN(coins[locator])
                               ELSE entry_n,
                               AddBounty(total_bounty, coins[locator].nValue))

\* claimdeadpooltxs(inputs, to_address, solution).
claimdeadpooltxs(activated, coins, inputs, address, solution) ==
    LET p      == BignumFromDecimal(solution)
        looked == LookupInputs(inputs.array, coins, 1, <<>>, <<>>, MpzZero)
    IN  IF ~activated
        THEN JSONRPCError("RPC_MISC_ERROR", "Deadpool feature is not yet activated")
        ELSE IF ~IsValidDestination(address)
        THEN JSONRPCError("RPC_INVALID_ADDRESS_OR_KEY", "Invalid address")
        ELSE IF ~p.valid
        THEN JSONRPCError("RPC_MISC_ERROR", "Invalid decimal number provided for solution")
        ELSE IF inputs.isNull
        THEN JSONRPCError("RPC_INVALID_PARAMETER",
                          "Invalid parameter, inputs argument must be non-null")
        ELSE IF looked.kind # "entries" THEN looked
        ELSE ClaimReply(looked.entries, looked.total_bounty, looked.entry_n,
                        p, address)

\* claimdeadpoolid: total_bounty, the sum of entry.txOut.nValue.
RECURSIVE TotalBounty(_)
TotalBounty(entries) ==
    IF entries = <<>> THEN MpzZero
    ELSE AddBounty(TotalBounty(Front(entries)), Last(entries).txOut.nValue)

\* A claimdeadpoolid that takes the entries of the index as they are: what
\* C30 rules out.
UnclaimedEntriesAll(entries, coins) == entries

\* claimdeadpoolid: the entries of the index that are still coins.
RECURSIVE UnclaimedEntries(_, _)
UnclaimedEntries(entries, coins) ==
    IF entries = <<>> THEN <<>>
    ELSE (IF entries[1].locator \in DOMAIN coins THEN <<entries[1]>> ELSE <<>>)
           \o UnclaimedEntries(Tail(entries), coins)

\* claimdeadpoolid(deadpoolid, to_address, solution); found tells whether
\* there is a g_deadpoolindex and what its FindEntries gives for the id.
claimdeadpoolid(activated, coins, found, address, solution) ==
    LET p         == BignumFromDecimal(solution)
        unclaimed == UnclaimedEntries(found.entries, coins)
    IN  IF ~activated
        THEN JSONRPCError("RPC_MISC_ERROR", "Deadpool feature is not yet activated")
        ELSE IF ~IsValidDestination(address)
        THEN JSONRPCError("RPC_INVALID_ADDRESS_OR_KEY", "Invalid address")
        ELSE IF ~p.valid
        THEN JSONRPCError("RPC_MISC_ERROR", "Invalid decimal number provided for solution")
        ELSE IF ~found.index
        THEN JSONRPCError("RPC_MISC_ERROR", "Deadpool index not available")
        ELSE IF found.entries = <<>> THEN JSONRPCError("RPC_MISC_ERROR", "No entries found")
        ELSE IF unclaimed = <<>> THEN JSONRPCError("RPC_MISC_ERROR", "No entries found")
        ELSE ClaimReply([i \in 1..Len(unclaimed) |-> unclaimed[i].locator],
                        TotalBounty(unclaimed),
                        GetEntryN(unclaimed[1].txOut), p, address)

\* 15 * 2^156, of 160 bits, and 21 * 2^156: the N of the entries.
EntryDecimal ==
    <<"1", "3", "7", "0", "1", "5", "7", "7", "8", "4", "9", "9", "7", "7",
      "2", "1", "4", "8", "5", "8", "1", "5", "9", "5", "4", "5", "3", "0",
      "6", "7", "1", "5", "1", "5", "3", "3", "0", "9", "2", "7", "4", "3",
      "6", "7", "5", "9", "0", "4", "0">>

OtherEntryDecimal ==
    <<"1", "9", "1", "8", "2", "2", "0", "8", "9", "8", "9", "9", "6", "8",
      "1", "0", "0", "8", "0", "1", "4", "2", "3", "3", "6", "3", "4", "2",
      "9", "4", "0", "1", "2", "1", "4", "6", "3", "2", "9", "8", "4", "1",
      "1", "4", "6", "2", "6", "5", "6">>

\* The decimal strings given for entry_n and for the solution.
EntryDecimals == {EntryDecimal, <<"1", "5">>, <<"1", "5", "x">>}

SolutionDecimals ==
    { <<"0">>, <<"1">>, <<"3">>, <<"-", "3">>, <<"7">>, <<"x">>, <<"-", "0">> }

\* The outpoints of the model are the outputs of one transaction.
RpcOutpoint(n) == [hash |-> 1, n |-> n]

\* An entry of the N with a bounty in satoshi.
RpcEntry(decimal, nValue) ==
    [type |-> "DEADPOOL_ENTRY", n |-> Serialize(BignumFromDecimal(decimal).value),
     claimHash |-> 0, nValue |-> MpzSetSi(nValue)]

\* The entry of outpoint 6 has the N of the first with a zero byte more.
RpcPaddedEntry ==
    [RpcEntry(EntryDecimal, 1000) EXCEPT !.n = Append(@, 0)]

\* The transaction outputs of the model by vout: 0 has a bounty below the
\* fee of a claim, 3 is no entry, 5 is an entry that is spent.
RpcTxOuts ==
    (0 :> RpcEntry(EntryDecimal, 1000))
      @@ (1 :> RpcEntry(EntryDecimal, 500000000))
      @@ (2 :> RpcEntry(OtherEntryDecimal, 2000))
      @@ (3 :> [type |-> "PUBKEYHASH", n |-> <<>>, claimHash |-> 0,
                nValue |-> MpzSetSi(4000)])
      @@ (5 :> RpcEntry(EntryDecimal, 700000))
      @@ (6 :> RpcPaddedEntry)

\* The coins view: outpoints 4 and 5 are no coins (any more).
RpcCoins ==
    [o \in { RpcOutpoint(vout) : vout \in {0, 1, 2, 3, 6} } |-> RpcTxOuts[o.n]]

\* The inputs argument.
RpcInputs ==
    {[isNull |-> TRUE, array |-> <<>>]}
      \cup { [isNull |-> FALSE, array |-> a] :
               a \in {<<>>, <<RpcOutpoint(-1)>>, <<RpcOutpoint(3)>>, <<RpcOutpoint(4)>>} }
      \cup { [isNull |-> FALSE, array |-> <<RpcOutpoint(0)>> \o rest] :
               rest \in {<<>>, <<RpcOutpoint(1)>>, <<RpcOutpoint(2)>>,
                         <<RpcOutpoint(6)>>, <<RpcOutpoint(1), RpcOutpoint(0)>>} }

\* The database of an index that has written the entries of the vouts.
RECURSIVE RpcIndexDb(_)
RpcIndexDb(vouts) ==
    IF vouts = <<>> THEN EmptyDb
    ELSE LET txOut == RpcTxOuts[Last(vouts)]
         IN  WriteEntry(RpcIndexDb(Front(vouts)), GetEntryNHash(txOut),
                        RpcOutpoint(Last(vouts)), 1, txOut)

RpcIndexDbs ==
    { RpcIndexDb(vouts) : vouts \in {<<>>, <<5>>, <<0, 2>>, <<2, 1, 0, 5>>} }

\* The deadpool ids of the two N.
RpcDeadpoolIds ==
    {GetEntryNHash(RpcTxOuts[0]), GetEntryNHash(RpcTxOuts[2])}

NoRpc == [method |-> "none"]

\* announcedeadpoolclaim is called.
CallAnnounceDeadpoolClaim ==
    /\ rpcAnn = NoRpc
    /\ \E activated \in BOOLEAN,
          amount \in {nDeadpoolAnnounceMinBurn - 1, nDeadpoolAnnounceMinBurn},
          address \in RpcAddresses, entry_n \in EntryDecimals,
          solution \in SolutionDecimals :
          rpcAnn' = [method |-> "announcedeadpoolclaim",
                     activated |-> activated, address |-> address,
                     entry_n |-> entry_n, solution |-> solution,
                     reply |-> announcedeadpoolclaim(activated, amount, address,
                                                     entry_n, solution)]
    /\ UNCHANGED <<rpcClaim, exceptRpc>>

\* claimdeadpooltxs is called; the N it reads is that of the first input,
\* and zero when there is no input.
CallClaimDeadpoolTxs ==
    /\ rpcClaim = NoRpc
    /\ \E activated \in BOOLEAN, inputs \in RpcInputs,
          address \in RpcAddresses, solution \in SolutionDecimals :
          rpcClaim' = [method |-> "claimdeadpooltxs",
                       activated |-> activated, address |-> address,
                       entry_n |-> IF inputs.array = <<>> THEN <<"0">>
                                   ELSE EntryDecimal,
                       solution |-> solution, inputs |-> inputs,
                       reply |-> claimdeadpooltxs(activated, RpcCoins, inputs,
                                                  address, solution)]
    /\ UNCHANGED <<rpcAnn, exceptRpc>>

\* claimdeadpoolid is called: there is no index, or there is one and
\* FindEntries gives its entries of the id.
CallClaimDeadpoolId ==
    /\ rpcClaim = NoRpc
    /\ \E activated \in BOOLEAN, index \in BOOLEAN, db \in RpcIndexDbs,
          deadpoolId \in RpcDeadpoolIds,
          address \in RpcAddresses, solution \in SolutionDecimals :
          /\ ~index => (db = EmptyDb /\ deadpoolId = GetEntryNHash(RpcTxOuts[0]))
          /\ rpcClaim' =
               [method |-> "claimdeadpoolid",
                activated |-> activated, address |-> address,
                entry_n |-> IF deadpoolId = GetEntryNHash(RpcTxOuts[0])
                            THEN EntryDecimal ELSE OtherEntryDecimal,
                solution |-> solution,
                inputs |-> [index |-> index, db |-> db,
                            deadpoolId |-> deadpoolId],
                reply |-> claimdeadpoolid(activated, RpcCoins,
                              [index   |-> index,
                               entries |-> IF index
                                           THEN FindEntries(db, deadpoolId)
                                           ELSE <<>>],
                              address, solution)]
    /\ UNCHANGED <<rpcAnn, exceptRpc>>

(***************************************************************************)
(* Specifications.                                                         *)
(***************************************************************************)

\* The values of a component that is idle.
IdleHdr == [nBits |-> 0, derived |-> 0, wOffset |-> 0, nP1 |-> 0]

IdlePlan == [span |-> 0, shape |-> "even"]

\* A block template is at hand and CheckProofOfWork has not been called.
InitPow ==
    /\ hdr \in Templates /\ powResult = "none"
    /\ bnOp = "none" /\ bnInt = 0 /\ bnEnc = <<>>
    /\ bnDec = [value |-> MpzZero, valid |-> TRUE] /\ bnReenc = <<>>
    /\ txo = NoTxOut /\ dpReason = "none"
    /\ annNet = "main" /\ annTip = 0 /\ annBlocks = <<>>
    /\ annDb = EmptyDb /\ annUndo = <<>> /\ annQuery = NoQuery
    /\ idxChain = <<>> /\ idxDb = EmptyDb /\ idxOp = "none"
    /\ rtNet = "main" /\ rtHeight = 0 /\ rtPeriod = <<>>
    /\ rtPlan = IdlePlan /\ rtLast = NoCall
    /\ ghIn = IdleGHash /\ ghW = NoGHash
    /\ pfLo = NoProof /\ pfHi = NoProof
    /\ scN = <<>> /\ scHash = <<>> /\ scRes = NoParse
    /\ ghRun = <<>>
    /\ rpcAnn = NoRpc /\ rpcClaim = NoRpc
    /\ wbRun = NoRun
    /\ amtV = MpzZero /\ amtOk = "none"
    /\ cpSrc = NoObject /\ cpDst = NoObject /\ cpOp = "none" /\ cpRun = "ok"
    /\ brIter = NoIter
    /\ tcCall = NoTrunc

NextPow == CheckPoW

SpecPow == InitPow /\ [][NextPow]_vars

\* No CScriptBignum is built and no output is checked yet.
InitBignum ==
    /\ hdr = IdleHdr /\ powResult = "none"
    /\ bnOp = "none" /\ bnInt = 0 /\ bnEnc = <<>>
    /\ bnDec = [value |-> MpzZero, valid |-> TRUE] /\ bnReenc = <<>>
    /\ txo = NoTxOut /\ dpReason = "none"
    /\ annNet = "main" /\ annTip = 0 /\ annBlocks = <<>>
    /\ annDb = EmptyDb /\ annUndo = <<>> /\ annQuery = NoQuery
    /\ idxChain = <<>> /\ idxDb = EmptyDb /\ idxOp = "none"
    /\ rtNet = "main" /\ rtHeight = 0 /\ rtPeriod = <<>>
    /\ rtPlan = IdlePlan /\ rtLast = NoCall
    /\ ghIn = IdleGHash /\ ghW = NoGHash
    /\ pfLo = NoProof /\ pfHi = NoProof
    /\ scN = <<>> /\ scHash = <<>> /\ scRes = NoParse
    /\ ghRun = <<>>
    /\ rpcAnn = NoRpc /\ rpcClaim = NoRpc
    /\ wbRun = NoRun
    /\ amtV = MpzZero /\ amtOk = "none"
    /\ cpSrc = NoObject /\ cpDst = NoObject /\ cpOp = "none" /\ cpRun = "ok"
    /\ brIter = NoIter
    /\ tcCall = NoTrunc

NextBignum == EncodeInt \/ DecodeBytes \/ CheckTxOut

SpecBignum == InitBignum /\ [][NextBignum]_vars

\* CAnnounceDB is empty and no block is connected.
InitAnnounce ==
    /\ hdr = IdleHdr /\ powResult = "none"
    /\ bnOp = "none" /\ bnInt = 0 /\ bnEnc = <<>>
    /\ bnDec = [value |-> MpzZero, valid |-> TRUE] /\ bnReenc = <<>>
    /\ txo = NoTxOut /\ dpReason = "none"
    /\ annNet \in {"main", "test"} /\ annTip = 0 /\ annBlocks = <<>>
    /\ annDb = EmptyDb /\ annUndo = <<>> /\ annQuery = NoQuery
    /\ idxChain = <<>> /\ idxDb = EmptyDb /\ idxOp = "none"
    /\ rtNet = "main" /\ rtHeight = 0 /\ rtPeriod = <<>>
    /\ rtPlan = IdlePlan /\ rtLast = NoCall
    /\ ghIn = IdleGHash /\ ghW = NoGHash
    /\ pfLo = NoProof /\ pfHi = NoProof
    /\ scN = <<>> /\ scHash = <<>> /\ scRes = NoParse
    /\ ghRun = <<>>
    /\ rpcAnn = NoRpc /\ rpcClaim = NoRpc
    /\ wbRun = NoRun
    /\ amtV = MpzZero /\ amtOk = "none"
    /\ cpSrc = NoObject /\ cpDst = NoObject /\ cpOp = "none" /\ cpRun = "ok"
    /\ brIter = NoIter
    /\ tcCall = NoTrunc

NextAnnounce ==
    AnnConnectBlock \/ AnnDisconnectBlock \/ AnnClaimExists \/ AnnVerifyClaim

SpecAnnounce == InitAnnounce /\ [][NextAnnounce]_vars

\* The index database is empty and no block is connected.
InitIndex ==
    /\ hdr = IdleHdr /\ powResult = "none"
    /\ bnOp = "none" /\ bnInt = 0 /\ bnEnc = <<>>
    /\ bnDec = [value |-> MpzZero, valid |-> TRUE] /\ bnReenc = <<>>
    /\ txo = NoTxOut /\ dpReason = "none"
    /\ annNet = "main" /\ annTip = 0 /\ annBlocks = <<>>
    /\ annDb = EmptyDb /\ annUndo = <<>> /\ annQuery = NoQuery
    /\ idxChain = <<>> /\ idxDb = EmptyDb /\ idxOp = "none"
    /\ rtNet = "main" /\ rtHeight = 0 /\ rtPeriod = <<>>
    /\ rtPlan = IdlePlan /\ rtLast = NoCall
    /\ ghIn = IdleGHash /\ ghW = NoGHash
    /\ pfLo = NoProof /\ pfHi = NoProof
    /\ scN = <<>> /\ scHash = <<>> /\ scRes = NoParse
    /\ ghRun = <<>>
    /\ rpcAnn = NoRpc /\ rpcClaim = NoRpc
    /\ wbRun = NoRun
    /\ amtV = MpzZero /\ amtOk = "none"
    /\ cpSrc = NoObject /\ cpDst = NoObject /\ cpOp = "none" /\ cpRun = "ok"
    /\ brIter = NoIter
    /\ tcCall = NoTrunc

NextIndex == IdxBlockConnected \/ IdxBlockDisconnected

SpecIndex == InitIndex /\ [][NextIndex]_vars

\* No block is connected and the index is empty.
InitWrites ==
    /\ hdr = IdleHdr /\ powResult = "none"
    /\ bnOp = "none" /\ bnInt = 0 /\ bnEnc = <<>>
    /\ bnDec = [value |-> MpzZero, valid |-> TRUE] /\ bnReenc = <<>>
    /\ txo = NoTxOut /\ dpReason = "none"
    /\ annNet = "main" /\ annTip = 0 /\ annBlocks = <<>>
    /\ annDb = EmptyDb /\ annUndo = <<>> /\ annQuery = NoQuery
    /\ idxChain = <<>> /\ idxDb = EmptyDb /\ idxOp = "none"
    /\ rtNet = "main" /\ rtHeight = 0 /\ rtPeriod = <<>>
    /\ rtPlan = IdlePlan /\ rtLast = NoCall
    /\ ghIn = IdleGHash /\ ghW = NoGHash
    /\ pfLo = NoProof /\ pfHi = NoProof
    /\ scN = <<>> /\ scHash = <<>> /\ scRes = NoParse
    /\ ghRun = <<>>
    /\ rpcAnn = NoRpc /\ rpcClaim = NoRpc
    /\ wbRun = NoRun
    /\ amtV = MpzZero /\ amtOk = "none"
    /\ cpSrc = NoObject /\ cpDst = NoObject /\ cpOp = "none" /\ cpRun = "ok"
    /\ brIter = NoIter
    /\ tcCall = NoTrunc

NextWrites ==
    WbBlockConnected \/ WbBegin \/ WbWriteBatch \/ WbReturn \/ WbRestart

SpecWrites == InitWrites /\ [][NextWrites]_vars

\* An amount is at hand and MoneyRange has not been called.
InitAmount ==
    /\ hdr = IdleHdr /\ powResult = "none"
    /\ bnOp = "none" /\ bnInt = 0 /\ bnEnc = <<>>
    /\ bnDec = [value |-> MpzZero, valid |-> TRUE] /\ bnReenc = <<>>
    /\ txo = NoTxOut /\ dpReason = "none"
    /\ annNet = "main" /\ annTip = 0 /\ annBlocks = <<>>
    /\ annDb = EmptyDb /\ annUndo = <<>> /\ annQuery = NoQuery
    /\ idxChain = <<>> /\ idxDb = EmptyDb /\ idxOp = "none"
    /\ rtNet = "main" /\ rtHeight = 0 /\ rtPeriod = <<>>
    /\ rtPlan = IdlePlan /\ rtLast = NoCall
    /\ ghIn = IdleGHash /\ ghW = NoGHash
    /\ pfLo = NoProof /\ pfHi = NoProof
    /\ scN = <<>> /\ scHash = <<>> /\ scRes = NoParse
    /\ ghRun = <<>>
    /\ rpcAnn = NoRpc /\ rpcClaim = NoRpc
    /\ wbRun = NoRun
    /\ amtV \in AmountInputs /\ amtOk = "none"
    /\ cpSrc = NoObject /\ cpDst = NoObject /\ cpOp = "none" /\ cpRun = "ok"
    /\ brIter = NoIter
    /\ tcCall = NoTrunc

NextAmount == CallMoneyRange

SpecAmount == InitAmount /\ [][NextAmount]_vars

\* An object was constructed; no copy of it exists.
InitCopy ==
    /\ hdr = IdleHdr /\ powResult = "none"
    /\ bnOp = "none" /\ bnInt = 0 /\ bnEnc = <<>>
    /\ bnDec = [value |-> MpzZero, valid |-> TRUE] /\ bnReenc = <<>>
    /\ txo = NoTxOut /\ dpReason = "none"
    /\ annNet = "main" /\ annTip = 0 /\ annBlocks = <<>>
    /\ annDb = EmptyDb /\ annUndo = <<>> /\ annQuery = NoQuery
    /\ idxChain = <<>> /\ idxDb = EmptyDb /\ idxOp = "none"
    /\ rtNet = "main" /\ rtHeight = 0 /\ rtPeriod = <<>>
    /\ rtPlan = IdlePlan /\ rtLast = NoCall
    /\ ghIn = IdleGHash /\ ghW = NoGHash
    /\ pfLo = NoProof /\ pfHi = NoProof
    /\ scN = <<>> /\ scHash = <<>> /\ scRes = NoParse
    /\ ghRun = <<>>
    /\ rpcAnn = NoRpc /\ rpcClaim = NoRpc
    /\ wbRun = NoRun
    /\ amtV = MpzZero /\ amtOk = "none"
    /\ cpSrc \in CopySources /\ cpDst = NoObject /\ cpOp = "none" /\ cpRun = "ok"
    /\ brIter = NoIter
    /\ tcCall = NoTrunc

NextCopy == CallCopyConstructor \/ CallOperatorModReturn \/ CallDestructor

SpecCopy == InitCopy /\ [][NextCopy]_vars

\* gHash is at the top of an iteration of its inner loop.
InitBranch ==
    /\ hdr = IdleHdr /\ powResult = "none"
    /\ bnOp = "none" /\ bnInt = 0 /\ bnEnc = <<>>
    /\ bnDec = [value |-> MpzZero, valid |-> TRUE] /\ bnReenc = <<>>
    /\ txo = NoTxOut /\ dpReason = "none"
    /\ annNet = "main" /\ annTip = 0 /\ annBlocks = <<>>
    /\ annDb = EmptyDb /\ annUndo = <<>> /\ annQuery = NoQuery
    /\ idxChain = <<>> /\ idxDb = EmptyDb /\ idxOp = "none"
    /\ rtNet = "main" /\ rtHeight = 0 /\ rtPeriod = <<>>
    /\ rtPlan = IdlePlan /\ rtLast = NoCall
    /\ ghIn = IdleGHash /\ ghW = NoGHash
    /\ pfLo = NoProof /\ pfHi = NoProof
    /\ scN = <<>> /\ scHash = <<>> /\ scRes = NoParse
    /\ ghRun = <<>>
    /\ rpcAnn = NoRpc /\ rpcClaim = NoRpc
    /\ wbRun = NoRun
    /\ amtV = MpzZero /\ amtOk = "none"
    /\ cpSrc = NoObject /\ cpDst = NoObject /\ cpOp = "none" /\ cpRun = "ok"
    /\ brIter \in { [NoIter EXCEPT !.pc = "top", !.derived = d, !.a_inverse = a] :
                     d \in BranchBuffers, a \in BranchInverses }
    /\ tcCall = NoTrunc

NextBranch == BranchIteration

SpecBranch == InitBranch /\ [][NextBranch]_vars

\* gHash was called with a header and has run its rounds.
InitTrunc ==
    /\ hdr = IdleHdr /\ powResult = "none"
    /\ bnOp = "none" /\ bnInt = 0 /\ bnEnc = <<>>
    /\ bnDec = [value |-> MpzZero, valid |-> TRUE] /\ bnReenc = <<>>
    /\ txo = NoTxOut /\ dpReason = "none"
    /\ annNet = "main" /\ annTip = 0 /\ annBlocks = <<>>
    /\ annDb = EmptyDb /\ annUndo = <<>> /\ annQuery = NoQuery
    /\ idxChain = <<>> /\ idxDb = EmptyDb /\ idxOp = "none"
    /\ rtNet = "main" /\ rtHeight = 0 /\ rtPeriod = <<>>
    /\ rtPlan = IdlePlan /\ rtLast = NoCall
    /\ ghIn = IdleGHash /\ ghW = NoGHash
    /\ pfLo = NoProof /\ pfHi = NoProof
    /\ scN = <<>> /\ scHash = <<>> /\ scRes = NoParse
    /\ ghRun = <<>>
    /\ rpcAnn = NoRpc /\ rpcClaim = NoRpc
    /\ wbRun = NoRun
    /\ amtV = MpzZero /\ amtOk = "none"
    /\ cpSrc = NoObject /\ cpDst = NoObject /\ cpOp = "none" /\ cpRun = "ok"
    /\ brIter = NoIter
    /\ tcCall \in { [NoTrunc EXCEPT !.pc = "rounds", !.nBits = b] : b \in HeaderBits }

NextTrunc == GHashTruncation

SpecTrunc == InitTrunc /\ [][NextTrunc]_vars

\* The chain is at its genesis block and the miners have a plan for the period.
InitRetarget ==
    /\ hdr = IdleHdr /\ powResult = "none"
    /\ bnOp = "none" /\ bnInt = 0 /\ bnEnc = <<>>
    /\ bnDec = [value |-> MpzZero, valid |-> TRUE] /\ bnReenc = <<>>
    /\ txo = NoTxOut /\ dpReason = "none"
    /\ annNet = "main" /\ annTip = 0 /\ annBlocks = <<>>
    /\ annDb = EmptyDb /\ annUndo = <<>> /\ annQuery = NoQuery
    /\ idxChain = <<>> /\ idxDb = EmptyDb /\ idxOp = "none"
    /\ rtNet \in {"main", "test", "regtest"} /\ rtHeight = 0
    /\ rtPeriod = <<GenesisIndex(rtNet)>>
    /\ rtPlan \in Plans(rtNet) /\ rtLast = NoCall
    /\ ghIn = IdleGHash /\ ghW = NoGHash
    /\ pfLo = NoProof /\ pfHi = NoProof
    /\ scN = <<>> /\ scHash = <<>> /\ scRes = NoParse
    /\ ghRun = <<>>
    /\ rpcAnn = NoRpc /\ rpcClaim = NoRpc
    /\ wbRun = NoRun
    /\ amtV = MpzZero /\ amtOk = "none"
    /\ cpSrc = NoObject /\ cpDst = NoObject /\ cpOp = "none" /\ cpRun = "ok"
    /\ brIter = NoIter
    /\ tcCall = NoTrunc

NextRetarget == RtMineBlock \/ RtCalculate

SpecRetarget == InitRetarget /\ [][NextRetarget]_vars

\* The derived buffer of a header is at hand and gHash has not been called.
InitGHash ==
    /\ hdr = IdleHdr /\ powResult = "none"
    /\ bnOp = "none" /\ bnInt = 0 /\ bnEnc = <<>>
    /\ bnDec = [value |-> MpzZero, valid |-> TRUE] /\ bnReenc = <<>>
    /\ txo = NoTxOut /\ dpReason = "none"
    /\ annNet = "main" /\ annTip = 0 /\ annBlocks = <<>>
    /\ annDb = EmptyDb /\ annUndo = <<>> /\ annQuery = NoQuery
    /\ idxChain = <<>> /\ idxDb = EmptyDb /\ idxOp = "none"
    /\ rtNet = "main" /\ rtHeight = 0 /\ rtPeriod = <<>>
    /\ rtPlan = IdlePlan /\ rtLast = NoCall
    /\ ghIn \in GHashInputs /\ ghW = NoGHash
    /\ pfLo = NoProof /\ pfHi = NoProof
    /\ scN = <<>> /\ scHash = <<>> /\ scRes = NoParse
    /\ ghRun = <<>>
    /\ rpcAnn = NoRpc /\ rpcClaim = NoRpc
    /\ wbRun = NoRun
    /\ amtV = MpzZero /\ amtOk = "none"
    /\ cpSrc = NoObject /\ cpDst = NoObject /\ cpOp = "none" /\ cpRun = "ok"
    /\ brIter = NoIter
    /\ tcCall = NoTrunc

NextGHash == CallGHash

SpecGHash == InitGHash /\ [][NextGHash]_vars

\* No block index has been handed to GetBlockProof.
InitProof ==
    /\ hdr = IdleHdr /\ powResult = "none"
    /\ bnOp = "none" /\ bnInt = 0 /\ bnEnc = <<>>
    /\ bnDec = [value |-> MpzZero, valid |-> TRUE] /\ bnReenc = <<>>
    /\ txo = NoTxOut /\ dpReason = "none"
    /\ annNet = "main" /\ annTip = 0 /\ annBlocks = <<>>
    /\ annDb = EmptyDb /\ annUndo = <<>> /\ annQuery = NoQuery
    /\ idxChain = <<>> /\ idxDb = EmptyDb /\ idxOp = "none"
    /\ rtNet = "main" /\ rtHeight = 0 /\ rtPeriod = <<>>
    /\ rtPlan = IdlePlan /\ rtLast = NoCall
    /\ ghIn = IdleGHash /\ ghW = NoGHash
    /\ pfLo = NoProof /\ pfHi = NoProof
    /\ scN = <<>> /\ scHash = <<>> /\ scRes = NoParse
    /\ ghRun = <<>>
    /\ rpcAnn = NoRpc /\ rpcClaim = NoRpc
    /\ wbRun = NoRun
    /\ amtV = MpzZero /\ amtOk = "none"
    /\ cpSrc = NoObject /\ cpDst = NoObject /\ cpOp = "none" /\ cpRun = "ok"
    /\ brIter = NoIter
    /\ tcCall = NoTrunc

NextProof == ProofOfBlock \/ ProofOfLongerBlock

SpecProof == InitProof /\ [][NextProof]_vars

InitScript ==
    /\ hdr = IdleHdr /\ powResult = "none"
    /\ bnOp = "none" /\ bnInt = 0 /\ bnEnc = <<>>
    /\ bnDec = [value |-> MpzZero, valid |-> TRUE] /\ bnReenc = <<>>
    /\ txo = NoTxOut /\ dpReason = "none"
    /\ annNet = "main" /\ annTip = 0 /\ annBlocks = <<>>
    /\ annDb = EmptyDb /\ annUndo = <<>> /\ annQuery = NoQuery
    /\ idxChain = <<>> /\ idxDb = EmptyDb /\ idxOp = "none"
    /\ rtNet = "main" /\ rtHeight = 0 /\ rtPeriod = <<>>
    /\ rtPlan = IdlePlan /\ rtLast = NoCall
    /\ ghIn = IdleGHash /\ ghW = NoGHash
    /\ pfLo = NoProof /\ pfHi = NoProof
    /\ scN \in ScriptNs /\ scHash \in ClaimHashes /\ scRes = NoParse
    /\ ghRun = <<>>
    /\ rpcAnn = NoRpc /\ rpcClaim = NoRpc
    /\ wbRun = NoRun
    /\ amtV = MpzZero /\ amtOk = "none"
    /\ cpSrc = NoObject /\ cpDst = NoObject /\ cpOp = "none" /\ cpRun = "ok"
    /\ brIter = NoIter
    /\ tcCall = NoTrunc

NextScript == HashEntry \/ ParseAnnounce

SpecScript == InitScript /\ [][NextScript]_vars

InitGRun ==
    /\ hdr = IdleHdr /\ powResult = "none"
    /\ bnOp = "none" /\ bnInt = 0 /\ bnEnc = <<>>
    /\ bnDec = [value |-> MpzZero, valid |-> TRUE] /\ bnReenc = <<>>
    /\ txo = NoTxOut /\ dpReason = "none"
    /\ annNet = "main" /\ annTip = 0 /\ annBlocks = <<>>
    /\ annDb = EmptyDb /\ annUndo = <<>> /\ annQuery = NoQuery
    /\ idxChain = <<>> /\ idxDb = EmptyDb /\ idxOp = "none"
    /\ rtNet = "main" /\ rtHeight = 0 /\ rtPeriod = <<>>
    /\ rtPlan = IdlePlan /\ rtLast = NoCall
    /\ ghIn = IdleGHash /\ ghW = NoGHash
    /\ pfLo = NoProof /\ pfHi = NoProof
    /\ scN = <<>> /\ scHash = <<>> /\ scRes = NoParse
    /\ \E h \in GHeaders, g \in GOtherHeaders : ghRun = <<GCall(h), GCall(g)>>
    /\ rpcAnn = NoRpc /\ rpcClaim = NoRpc
    /\ wbRun = NoRun
    /\ amtV = MpzZero /\ amtOk = "none"
    /\ cpSrc = NoObject /\ cpDst = NoObject /\ cpOp = "none" /\ cpRun = "ok"
    /\ brIter = NoIter
    /\ tcCall = NoTrunc

NextGRun ==
    \E t \in GThreads : GHashBegin(t) \/ GHashRoundStep(t) \/ GHashTruncate(t)

SpecGRun == InitGRun /\ [][NextGRun]_vars

InitRpc ==
    /\ hdr = IdleHdr /\ powResult = "none"
    /\ bnOp = "none" /\ bnInt = 0 /\ bnEnc = <<>>
    /\ bnDec = [value |-> MpzZero, valid |-> TRUE] /\ bnReenc = <<>>
    /\ txo = NoTxOut /\ dpReason = "none"
    /\ annNet = "main" /\ annTip = 0 /\ annBlocks = <<>>
    /\ annDb = EmptyDb /\ annUndo = <<>> /\ annQuery = NoQuery
    /\ idxChain = <<>> /\ idxDb = EmptyDb /\ idxOp = "none"
    /\ rtNet = "main" /\ rtHeight = 0 /\ rtPeriod = <<>>
    /\ rtPlan = IdlePlan /\ rtLast = NoCall
    /\ ghIn = IdleGHash /\ ghW = NoGHash
    /\ pfLo = NoProof /\ pfHi = NoProof
    /\ scN = <<>> /\ scHash = <<>> /\ scRes = NoParse
    /\ ghRun = <<>>
    /\ rpcAnn = NoRpc /\ rpcClaim = NoRpc
    /\ wbRun = NoRun
    /\ amtV = MpzZero /\ amtOk = "none"
    /\ cpSrc = NoObject /\ cpDst = NoObject /\ cpOp = "none" /\ cpRun = "ok"
    /\ brIter = NoIter
    /\ tcCall = NoTrunc

NextRpc == CallAnnounceDeadpoolClaim \/ CallClaimDeadpoolTxs \/ CallClaimDeadpoolId

SpecRpc == InitRpc /\ [][NextRpc]_vars

(***************************************************************************)
(* Claims about the proof of work (SpecPow).                               *)
(***************************************************************************)
\* The conditions of a valid proof of work, stated on the header: with
\* W = gHash(header) and N = W + wOffset.
PowConditions(block) ==
    LET W   == gHash(block.derived, block.nBits)
        N   == W + block.wOffset
        nP1 == block.nP1
    IN  /\ Abs(block.wOffset) <= 16 * block.nBits
        /\ N > 0
        /\ BitLen(N) = block.nBits
        /\ nP1 > 0
        /\ BitLen(nP1) = (block.nBits + 1) \div 2
        /\ nP1 * (N \div nP1) = N
        /\ nP1 <= N \div nP1
        /\ IsPrime(nP1)
        /\ IsPrime(N \div nP1)

\* C1: CheckProofOfWork returns true if and only if all the conditions hold
\* (|wOffset| <= 16*nBits, bitlength(N) = nBits, bitlength(nP1) =
\* ceil(nBits/2), nP1 divides N, nP1 <= N/nP1, both factors probable primes),
\* and any failing condition makes it return false.
C1_CheckProofOfWorkIff ==
    powResult # "none" =>
        /\ (powResult = "true" <=> PowConditions(hdr))
        /\ (~PowConditions(hdr) => powResult = "false")

\* What does hold: the claim for every header whose factor is not 0.
PowIffForNonZeroFactor ==
    (powResult # "none" /\ hdr.nP1 # 0) =>
        /\ (powResult = "true" <=> PowConditions(hdr))
        /\ (~PowConditions(hdr) => powResult = "false")

PowAccepts == powResult = "true"

PowDividesByZero == powResult = "SIGFPE"

(***************************************************************************)
(* Claims about CScriptBignum and the deadpool integers (SpecBignum).      *)
(* The encoding is described here on the bytes themselves, without the     *)
(* mpz operations of the model.                                            *)
(***************************************************************************)
SignBitSet(e) == Len(e) > 0 /\ Last(e) >= 128

\* The magnitude bytes: e without the sign bit.
MagnitudeBytes(e) ==
    IF SignBitSet(e) THEN [e EXCEPT ![Len(e)] = @ - 128] ELSE e

MagnitudeIsZero(e) == \A i \in 1..Len(e) : MagnitudeBytes(e)[i] = 0

MagnitudeIsOne(e) ==
    /\ Len(e) > 0
    /\ MagnitudeBytes(e)[1] = 1
    /\ \A i \in 2..Len(e) : MagnitudeBytes(e)[i] = 0

\* The number of bits of the magnitude (0 for 0).
MagnitudeBits(e) ==
    LET m   == MagnitudeBytes(e)
        top == TopNonZero(m, 1, Len(m))
    IN  IF top = 0 THEN 0 ELSE 8 * (top - 1) + BitLen(m[top])

IsNegativeZero(e) == SignBitSet(e) /\ MagnitudeIsZero(e)

\* Canonical: empty for zero; otherwise the last byte carries magnitude
\* bits, or it is the extra byte (0x00 or 0x80) of a byte-aligned magnitude.
IsCanonical(e) ==
    \/ e = <<>>
    \/ Len(e) > 0 /\ Last(e) % 128 # 0
    \/ Len(e) > 1 /\ Last(e) % 128 = 0 /\ e[Len(e) - 1] >= 128

\* The integer an mpz of the model stands for (small magnitudes only).
RECURSIVE MagValue(_)
MagValue(m) == IF m = <<>> THEN 0 ELSE m[1] + 256 * MagValue(Tail(m))

MpzValue(x) == IF x.neg THEN -MagValue(x.mag) ELSE MagValue(x.mag)

\* C6: the encoding round-trips: decoding Serialize(n) gives a valid value
\* equal to n, for every integer n; and serializing the decoding of a
\* canonical encoding e gives e back.
C6_EncodingRoundTrips ==
    /\ bnOp = "int" =>
          /\ bnDec.valid
          /\ MpzValue(bnDec.value) = bnInt
          /\ IsCanonical(bnEnc)
    /\ (bnOp = "bytes" /\ IsCanonical(bnEnc)) => bnReenc = bnEnc

\* C6 witness: a negative, byte-aligned integer went through Serialize and
\* back, and a canonical two-byte encoding with its sign bit set was decoded.
C6_Witness ==
    \/ bnOp = "int" /\ bnInt = -128 /\ bnEnc = <<128, 128>>
    \/ bnOp = "bytes" /\ bnEnc = <<255, 128>> /\ bnReenc = bnEnc

\* C7: decoding gives IsValid() == false exactly for a negative zero (sign
\* bit set, magnitude zero); every other byte vector, the empty one
\* included, decodes to a valid value.
C7_OnlyNegativeZeroInvalid ==
    bnOp = "bytes" => (bnDec.valid <=> ~IsNegativeZero(bnEnc))

C7_Witness ==
    bnOp = "bytes" /\ bnEnc = <<0, 128>> /\ ~bnDec.valid

BadBigintReasons ==
    {"bad-bigint-zero", "bad-bigint-negative", "bad-bigint-too-small",
     "bad-bigint-too-large", "bad-bigint-non-canonical-size",
     "bad-bigint-non-canonical", "bad-bigint-invalid-number"}

\* C8: an output classified DEADPOOL_ENTRY or DEADPOOL_ANNOUNCE is accepted
\* if and only if its N is the canonical encoding of a positive integer of
\* 160 to 4159 bits; any other N is rejected with a bad-bigint reason (empty,
\* 0 or 1: zero; negative: negative; under 160 bits: too-small; over 4159
\* bits: too-large; in range but not canonical: non-canonical(-size)); an
\* output of another type is always accepted.
C8_DeadpoolIntegerAccepted ==
    dpReason # "none" =>
        IF txo.type \notin {"DEADPOOL_ENTRY", "DEADPOOL_ANNOUNCE"}
        THEN dpReason = "ok"
        ELSE LET e        == txo.n
                 bits     == MagnitudeBits(e)
                 positive == ~SignBitSet(e) /\ bits > 0
             IN  /\ dpReason = "ok" <=>
                       (IsCanonical(e) /\ positive /\ bits >= 160 /\ bits <= 4159)
                 /\ dpReason # "ok" => dpReason \in BadBigintReasons
                 /\ (e = <<>> \/ (MagnitudeIsZero(e) /\ ~SignBitSet(e))
                        \/ (MagnitudeIsOne(e) /\ ~SignBitSet(e)))
                       => dpReason = "bad-bigint-zero"
                 /\ (SignBitSet(e) /\ ~MagnitudeIsZero(e))
                       => dpReason = "bad-bigint-negative"
                 /\ (positive /\ bits >= 2 /\ bits < 160)
                       => dpReason = "bad-bigint-too-small"
                 /\ (positive /\ bits > 4159)
                       => dpReason = "bad-bigint-too-large"
                 /\ (positive /\ bits >= 160 /\ bits <= 4159 /\ ~IsCanonical(e))
                       => dpReason \in {"bad-bigint-non-canonical-size",
                                        "bad-bigint-non-canonical"}

\* C8 witness: a 160-bit N in 21 bytes was accepted as a deadpool entry.
C8_Witness ==
    /\ dpReason = "ok"
    /\ txo.type = "DEADPOOL_ENTRY"
    /\ Len(txo.n) = 21
    /\ MagnitudeBits(txo.n) = 160

(***************************************************************************)
(* Claims about the announcement database (SpecAnnounce).                  *)
(***************************************************************************)
\* The records of the announcement outputs of the connected blocks: block i
\* of blocks is the block of height i.
ExpectedRecords(blocks) ==
    UNION { UNION { { [key   |-> [type |-> "a",
                                  deadpoolId |-> HashNValue(AnnTxs[blocks[i][t]].vout[o].n),
                                  locator |-> [hash |-> blocks[i][t], n |-> o - 1]],
                       value |-> [height |-> i,
                                  claimHash |-> AnnTxs[blocks[i][t]].vout[o].claimHash]] :
                      o \in { q \in 1..Len(AnnTxs[blocks[i][t]].vout) :
                                AnnTxs[blocks[i][t]].vout[q].type = "DEADPOOL_ANNOUNCE" } } :
                    t \in 1..Len(blocks[i]) } :
            i \in 1..Len(blocks) }

DbRecords(db) == { [key |-> k, value |-> db[k]] : k \in DOMAIN db }

\* C2: a claim for deadpool id D with commitment h verifies at tip height T
\* if and only if the database holds a record for D with claimHash h and a
\* height H with maturity <= T - H <= validity; on mainnet (100, 672) a
\* single announcement of height H is verified at H+100 and H+672 and not at
\* H+99 or H+673.  ClaimExists(D, h, minHeight, maxHeight) is true exactly
\* when a record keyed by D has claimHash h and minHeight <= height <=
\* maxHeight.
C2_ClaimWindow ==
    /\ annQuery.op = "verify" =>
          /\ annQuery.result <=>
                \E r \in DbRecords(annDb) :
                    /\ r.key.deadpoolId = annQuery.hash
                    /\ r.value.claimHash = annQuery.claim
                    /\ nDeadpoolAnnounceMaturity(annNet) <= annTip - r.value.height
                    /\ annTip - r.value.height <= nDeadpoolAnnounceValidity(annNet)
          /\ \A r \in DbRecords(annDb) :
                (/\ annNet = "main"
                 /\ r.key.deadpoolId = annQuery.hash
                 /\ r.value.claimHash = annQuery.claim
                 /\ \A q \in DbRecords(annDb) :
                       (q.key.deadpoolId = r.key.deadpoolId
                          /\ q.value.claimHash = r.value.claimHash)
                       => q.value.height = r.value.height)
                => /\ annTip = r.value.height + 99 => ~annQuery.result
                   /\ annTip = r.value.height + 100 => annQuery.result
                   /\ annTip = r.value.height + 672 => annQuery.result
                   /\ annTip = r.value.height + 673 => ~annQuery.result
    /\ annQuery.op = "exists" =>
          (annQuery.result <=>
              \E r \in DbRecords(annDb) :
                  /\ r.key.deadpoolId = annQuery.hash
                  /\ r.value.claimHash = annQuery.claim
                  /\ annQuery.minHeight <= r.value.height
                  /\ r.value.height <= annQuery.maxHeight)

\* C2 witness: on mainnet a claim is verified at the last height of the
\* validity of its announcement.
C2_Witness ==
    /\ annNet = "main"
    /\ annQuery.op = "verify"
    /\ annQuery.result
    /\ \A r \in DbRecords(annDb) :
          (r.key.deadpoolId = annQuery.hash /\ r.value.claimHash = annQuery.claim)
          => annTip = r.value.height + 672

\* C3: after any sequence of connects and of disconnects of the tip, the
\* database holds exactly one record (deadpoolId, outpoint) -> (height,
\* claimHash) for every announcement output of the connected blocks and no
\* other record; disconnecting a block gives the database as it was before
\* the block was connected; and a connect or a disconnect leaves the records
\* of the other blocks as they are.
C3_DbMatchesConnectedBlocks ==
    /\ [](DbRecords(annDb) = ExpectedRecords(annBlocks))
    /\ [][(annTip' = annTip - 1 /\ annTip <= AnnLow)
             => annDb' = Last(annUndo)]_vars
    /\ [][(annTip' = annTip - 1 /\ annTip > AnnLow) => annDb' = annDb]_vars
    /\ [][\A r \in DbRecords(annDb) :
             (annTip' # annTip
                /\ r.key.locator.hash \notin TxidsOf(<<Last(<<<<>>>> \o annBlocks)>>)
                /\ r.key.locator.hash \notin TxidsOf(<<Last(<<<<>>>> \o annBlocks')>>))
             => r \in DbRecords(annDb')]_vars

\* C3 witness: the second block was disconnected from under a first block
\* that announces the N and the commitment of an announcement of the second,
\* and the record of the first block is in the database.
C3_Witness ==
    /\ annQuery.op = "disconnect"
    /\ annTip = 1
    /\ annBlocks = << <<4, 1>> >>
    /\ DOMAIN annDb = {[type |-> "a", deadpoolId |-> HashNValue(<<1>>),
                        locator |-> [hash |-> 1, n |-> 0]]}

(***************************************************************************)
(* Claims about the deadpool index (SpecIndex).                            *)
(***************************************************************************)
\* The index of a chain whose blocks were connected one after the other and
\* never disconnected.
RECURSIVE IndexOfChain(_)
IndexOfChain(chain) ==
    IF chain = <<>> THEN EmptyDb
    ELSE WriteBlock(IndexOfChain(Front(chain)), BlockOf(Last(chain)),
                    [nHeight |-> Len(chain) - 1, hash |-> Last(chain).hash])

\* The block of the chain and the transaction that spend outpoint.
SpendersOf(chain, outpoint) ==
    UNION { { [height |-> i - 1, hash |-> chain[i].hash, txid |-> t] :
                t \in { q \in ChainTxids(<<chain[i]>>) :
                          outpoint \in SpentBy({q}) } } :
            i \in 1..Len(chain) }

\* C4: when a reorg disconnects a block, the index returns to its state
\* before that block was connected: what the block added is no longer
\* returned by FindEntries, FindAnnounces and FindEntriesSinceHeight, the
\* claim records it marked claimed are unclaimed again, and so a claim of the
\* same entry on the new chain is recorded with the height, the block hash
\* and the txid of the new chain.
C4_DisconnectRestoresIndex ==
    /\ [][(idxOp' = "rewind" /\ idxDb = IndexOfChain(idxChain))
             => idxDb' = IndexOfChain(idxChain')]_vars
    /\ [](\A t \in ChainTxids(idxChain) :
            \A p \in SpentBy({t}) :
               LET claim == FindClaim(idxDb, p)
               IN  claim.found =>
                      \E sp \in SpendersOf(idxChain, p) :
                          /\ claim.claimHeight = sp.height
                          /\ claim.claimBlockHash = sp.hash
                          /\ claim.claimTxHash = sp.txid)

\* The claim records of an outpoint.
ClaimRecordsOf(db, outpoint) ==
    { [key |-> k, value |-> db[k]] :
        k \in { q \in DOMAIN db :
                  /\ q[1] = 99
                  /\ q[2] = outpoint.hash
                  /\ q[3] = outpoint.n } }

\* The integer a byte vector encodes.
SignedValue(e) ==
    IF SignBitSet(e) THEN -MagValue(MagnitudeBytes(e)) ELSE MagValue(e)

\* C5: when the index connects a block at height h >= 1 with a transaction
\* input whose prevout has an unclaimed claim record, be it of an earlier
\* block, of an earlier transaction of the block or of the transaction
\* itself, the record becomes (h, hash of the block, id of the spending
\* transaction, the serialized factor of the scriptSig) with its deadpoolId
\* as it was, and FindClaim returns it; an input whose prevout has no
\* unclaimed record writes nothing.
C5_ClaimRecorded ==
    [][(idxOp' = "connect" /\ Len(idxChain) >= 1) =>
        LET b == Last(idxChain')
            h == Len(idxChain)
        IN  \A ti \in 1..Len(b.txids) :
              LET tx == IdxTxs[b.txids[ti]]
              IN  \A ii \in 1..Len(tx.vin) :
                    LET p       == tx.vin[ii].prevout
                        made    == \E tj \in 1..ti :
                                      /\ b.txids[tj] = p.hash
                                      /\ p.n < Len(IdxTxs[p.hash].vout)
                                      /\ IdxTxs[p.hash].vout[p.n + 1].type
                                            = "DEADPOOL_ENTRY"
                        open    == { r \in ClaimRecordsOf(idxDb, p) :
                                       r.value.claimHeight = 0 /\ r.key[4] # 0 }
                        after   == ClaimRecordsOf(idxDb', p)
                        found   == FindClaim(idxDb', p)
                    IN  IF made \/ open # {}
                        THEN /\ Cardinality(after) = 1
                             /\ \A r \in after :
                                  /\ r.value.claimHeight = h
                                  /\ r.value.claimBlockHash = b.hash
                                  /\ r.value.claimTxHash = tx.txid
                                  /\ IsCanonical(r.value.solution)
                                  /\ SignedValue(r.value.solution)
                                        = SignedValue(tx.vin[ii].solution)
                                  /\ made => r.key[4] =
                                        HashNValue(IdxTxs[p.hash].vout[p.n + 1].n)
                                  /\ ~made => \E o \in open : o.key = r.key
                                  /\ found.found
                                  /\ found.entryLocator = p
                                  /\ found.deadpoolId = r.key[4]
                                  /\ found.claimHeight = h
                                  /\ found.claimBlockHash = b.hash
                                  /\ found.claimTxHash = tx.txid
                                  /\ found.solution = r.value.solution
                        ELSE after = ClaimRecordsOf(idxDb, p)]_vars

\* C5 witness: a block of height 1 made an entry and claimed it, and the
\* claim record of the entry holds the claim.
C5_Witness ==
    /\ idxOp = "connect"
    /\ Len(idxChain) = 2
    /\ idxChain[2].txids = <<1, 2>>
    /\ FindClaim(idxDb, [hash |-> 1, n |-> 0]).found
    /\ FindClaim(idxDb, [hash |-> 1, n |-> 0]).claimHeight = 1
    /\ FindClaim(idxDb, [hash |-> 1, n |-> 0]).claimTxHash = 2
    /\ FindClaim(idxDb, [hash |-> 1, n |-> 0]).solution = <<3>>

(***************************************************************************)
(* Claims about the retarget (SpecRetarget).                               *)
(***************************************************************************)
\* actualTimespan / nPowTargetTimespan > 1.0333, for a target timespan that
\* is a multiple of 100.
RatioOver10333(span, timespan) == span * 100 > 10333 * (timespan \div 100)

\* actualTimespan / nPowTargetTimespan < 0.90.
RatioUnder090(span, timespan) == span * 10 < 9 * timespan

\* C9: at a retarget boundary with retargeting enabled the next nBits is
\* nBits - 1 if actualTimespan / nPowTargetTimespan > 1.0333, nBits + 1 if
\* it is < 0.90 and nBits otherwise: a ratio of 0.85 gives nBits + 1, of 1.05
\* nBits - 1, of 1.00 nBits, and nBits moves by 1 at most.  With
\* fPowNoRetargeting the result is the previous nBits.
C9_RetargetByRatio ==
    (rtLast.op # "none" /\ rtLast.boundary) =>
        LET params   == Params(rtNet)
            timespan == params.nPowTargetTimespan
        IN  IF params.fPowNoRetargeting
            THEN rtLast.result = rtLast.nBits
            ELSE /\ RatioOver10333(rtLast.span, timespan)
                       => rtLast.result = rtLast.nBits - 1
                 /\ RatioUnder090(rtLast.span, timespan)
                       => rtLast.result = rtLast.nBits + 1
                 /\ (~RatioOver10333(rtLast.span, timespan)
                        /\ ~RatioUnder090(rtLast.span, timespan))
                       => rtLast.result = rtLast.nBits
                 /\ rtLast.span * 100 = 85 * timespan
                       => rtLast.result = rtLast.nBits + 1
                 /\ rtLast.span * 100 = 105 * timespan
                       => rtLast.result = rtLast.nBits - 1
                 /\ rtLast.span = timespan => rtLast.result = rtLast.nBits
                 /\ rtLast.result - rtLast.nBits \in {-1, 0, 1}

\* C9 witness: on mainnet a period of 1.05 times the target timespan ended,
\* and the block after it was given one bit less.
C9_Witness ==
    /\ rtNet = "main"
    /\ rtLast.op = "mine"
    /\ rtLast.boundary
    /\ rtLast.span * 100 = 105 * Params("main").nPowTargetTimespan
    /\ rtLast.result = rtLast.nBits - 1

\* C10: the nBits required for the next block is floored at powLimit: on a
\* chain whose blocks all have nBits >= powLimit, whatever the timestamps,
\* GetNextWorkRequired and CalculateNextWorkRequired return no value below
\* powLimit.
C10_FlooredAtPowLimit ==
    [][(rtLast' # rtLast
          /\ \A i \in 1..Len(rtPeriod) :
                rtPeriod[i].nBits >= Params(rtNet).powLimit)
         => rtLast'.result >= Params(rtNet).powLimit]_vars

\* C11: retargeting happens exactly every DifficultyAdjustmentInterval =
\* nPowTargetTimespan / nPowTargetSpacing blocks.  Without
\* fPowAllowMinDifficultyBlocks, GetNextWorkRequired returns the nBits of
\* pindexLast whenever nHeight + 1 is no multiple of the interval, so nBits
\* is constant between two multiples of the interval; at a multiple, the
\* first block of the period, at height nHeight - (interval - 1), exists.
C11_RetargetEveryInterval ==
    LET params   == Params(rtNet)
        interval == DifficultyAdjustmentInterval(params)
        boundary == (rtHeight + 1) % interval = 0
        nHeightFirst == rtHeight - (interval - 1)
    IN  /\ interval * params.nPowTargetSpacing = params.nPowTargetTimespan
        /\ (rtLast.op = "mine" /\ ~params.fPowAllowMinDifficultyBlocks)
              => /\ rtLast.boundary <=> (rtHeight % interval = 0)
                 /\ ~rtLast.boundary => rtLast.result = rtLast.nBits
        /\ ~params.fPowAllowMinDifficultyBlocks
              => \A i \in 1..Len(rtPeriod) : rtPeriod[i].nBits = rtPeriod[1].nBits
        /\ boundary
              => /\ nHeightFirst >= 0
                 /\ nHeightFirst = rtHeight - Len(rtPeriod) + 1
                 /\ Len(rtPeriod) = interval

\* C11 witness: on mainnet, after a retarget that changed nBits, a block that
\* is not at a multiple of the interval was given the nBits of its parent.
C11_Witness ==
    /\ rtNet = "main"
    /\ rtLast.op = "mine"
    /\ ~rtLast.boundary
    /\ rtHeight > DifficultyAdjustmentInterval(Params("main"))
    /\ rtPeriod[1].nBits # GenesisIndex("main").nBits
    /\ rtLast.result = rtPeriod[1].nBits

(***************************************************************************)
(* Claims about gHash's truncation step (SpecGHash).                       *)
(***************************************************************************)
\* C12: for every derived buffer and nBits, the W returned by gHash has bit
\* nBits - 1 set and no bit at nBits or above, so bitlength(W) = nBits, and
\* its bits below nBits - 1 are those of the derived buffer.
C12_GHashHasNBits ==
    ghW.called =>
        /\ (ghW.W \div Pow2(ghIn.nBits - 1)) % 2 = 1
        /\ ghW.W < Pow2(ghIn.nBits)
        /\ BitLen(ghW.W) = ghIn.nBits
        /\ ghW.W % Pow2(ghIn.nBits - 1) = ghIn.derived % Pow2(ghIn.nBits - 1)

\* C12 witness: nBits is a multiple of 8, the hash has bit nBits - 1 clear
\* and bits above it set, and gHash has returned.
C12_Witness ==
    /\ ghW.called
    /\ ghIn.nBits = 8
    /\ (ghIn.derived \div 128) % 2 = 0
    /\ ghIn.derived >= 256
    /\ ghW.W = 128 + (ghIn.derived % 128)

(***************************************************************************)
(* Claims about GetBlockProof (SpecProof).                                 *)
(***************************************************************************)
\* C13: GetBlockProof is monotone in the bit length b of nP1: it is 0 for
\* b < 16, and for 16 <= b1 <= b2 <= 1024 the proof of b1 is at most that of
\* b2; the work for 128 bits is less than for 256 bits, which is less than
\* for 512 bits.  The value depends on the bit length of nP1 only.
C13_BlockProofMonotone ==
    /\ (pfLo.called /\ pfLo.nP1.bits < 16) => pfLo.work = [mant |-> 0, exp |-> 0]
    /\ (pfLo.called /\ pfHi.called) =>
          /\ pfLo.nP1.bits <= pfHi.nP1.bits
          /\ pfLo.nP1.bits >= 16 => WorkLeq(pfLo.work, pfHi.work)
          /\ pfLo.nP1.bits = pfHi.nP1.bits => pfLo.work = pfHi.work
          /\ (pfLo.nP1.bits \in {128, 256} /\ pfHi.nP1.bits = 2 * pfLo.nP1.bits)
                => ~WorkLeq(pfHi.work, pfLo.work)

\* C13 witness: the proofs of a 256-bit and of a 512-bit nP1 were computed,
\* and the first is the lesser.
C13_Witness ==
    /\ pfLo.called /\ pfHi.called
    /\ pfLo.nP1.bits = 256 /\ pfHi.nP1.bits = 512
    /\ pfLo.nP1.low # pfHi.nP1.low
    /\ WorkLeq(pfLo.work, pfHi.work) /\ ~WorkLeq(pfHi.work, pfLo.work)

\* C14: encodings of the same N that differ only in padding give the same
\* deadpool id: HashNValue of the 20-byte encoding of N = 319, of the
\* 22-byte extra-padded one and of the 2-byte unpadded one all equal
\* valid_N_hash, GetEntryNHash of the entry scripts carrying them is that
\* same hash, and padding any N with leading zero bytes keeps its id.
C14_PaddingKeepsDeadpoolId ==
    scRes.op = "entry" =>
        /\ scRes.paddedHash = scRes.entryHash
        /\ scN \in {valid_N, extrapadded_N, unpadded_N} =>
              /\ scRes.hashN = valid_N_hash
              /\ scRes.entryHash = valid_N_hash


HashedFields(block) == [block EXCEPT !.nP1 = 0, !.wOffset = 0]

\* C16: gHash is deterministic and depends only on hashPrevBlock,
\* hashMerkleRoot, nNonce, nVersion, nBits, nTime and params.hashRounds: a
\* finished call returned the value these fields determine, whatever nP1
\* and wOffset are and whatever other call ran between its steps, and two
\* calls on headers equal in these fields returned the same W.
C16_GHashOfHashedFieldsOnly ==
    \A t \in GThreads :
        ghRun # <<>> /\ ghRun[t].pc = "done" =>
            /\ ghRun[t].W = gHashOfHeader(HashedFields(ghRun[t].block),
                                          [hashRounds |-> ghRun[t].block.hashRounds])
            /\ \A u \in GThreads :
                  (ghRun[u].pc = "done"
                     /\ HashedFields(ghRun[u].block) = HashedFields(ghRun[t].block))
                  => ghRun[u].W = ghRun[t].W

\* Two calls have finished on headers that differ in nP1 and wOffset only,
\* and two on headers that differ in a hashed field returned different W.
C16_Witness ==
    /\ ghRun # <<>>
    /\ ghRun[1].pc = "done" /\ ghRun[2].pc = "done"
    /\ ghRun[1].block # ghRun[2].block
    /\ HashedFields(ghRun[1].block) = HashedFields(ghRun[2].block)
    /\ ghRun[1].W = ghRun[2].W


\* The decimal string as a number modulo m > 0, digit by digit.
RECURSIVE DecimalMod(_, _, _)
DecimalMod(digits, m, r) ==
    IF digits = <<>> THEN r
    ELSE DecimalMod(Tail(digits), m, ((r * 10) + DigitValue(digits[1])) % m)

\* The solutions of the model that are decimal numbers, and their values.
SolutionValue(solution) ==
    CASE solution = <<"0">>      -> 0
      [] solution = <<"-", "0">> -> 0
      [] solution = <<"1">>      -> 1
      [] solution = <<"3">>      -> 3
      [] solution = <<"-", "3">> -> -3
      [] solution = <<"7">>      -> 7

\* The reply to a call that got as far as the solution check.
SolutionChecked(call) ==
    /\ call.method # "none"
    /\ call.solution # <<"x">>
    /\ \/ call.reply.kind # "error"
       \/ call.reply.message = "Solution is not valid for given entry"

\* C17: the claim calls handle every decimal solution p, 0, 1, negative
\* values and values that do not divide n included, by returning a
\* transaction or raising an RPC error with a reason; a transaction is
\* returned only when n mod p = 0, a solution with n mod p # 0 gets the
\* error "Solution is not valid for given entry", and no input makes the
\* call abort.
C17_SolutionsHandled ==
    \A call \in {rpcAnn, rpcClaim} :
        call.method # "none" =>
            /\ call.reply.kind \in {"tx", "error"}
            /\ call.reply.kind = "error" => call.reply.message # ""
            /\ (SolutionChecked(call) /\ SolutionValue(call.solution) # 0) =>
                  LET p == SolutionValue(call.solution)
                      r == DecimalMod(call.entry_n, IF p < 0 THEN -p ELSE p, 0)
                  IN  /\ call.reply.kind = "tx" => r = 0
                      /\ r # 0 => call.reply.kind = "error"


\* sha256(sha256(Serialize(p)) || sha256(scriptPubKey of the address)), for
\* the solution and the address of a call.
ClaimHashOfCall(call) ==
    LEBytes(Sha256(<<Sha256(Serialize(BignumFromDecimal(call.solution).value)),
                     Sha256(GetScriptForDestination(call.address))>>), 32)

\* C18: the claim hash announcedeadpoolclaim commits in its output and the
\* claim hash claimdeadpooltxs and claimdeadpoolid push in every input
\* scriptSig are both sha256(sha256(Serialize(p)) || sha256(scriptPubKey of
\* the address)), so the revealed hash is the announced one if and only if
\* the claim has the destination script and the factor p of the
\* announcement.
C18_ClaimHashOfSolutionAndScript ==
    /\ (rpcAnn.method # "none" /\ rpcAnn.reply.kind = "tx") =>
          ClaimHashOfScript(rpcAnn.reply.tx.vout[1].scriptPubKey)
             = ClaimHashOfCall(rpcAnn)
    /\ (rpcClaim.method # "none" /\ rpcClaim.reply.kind = "tx") =>
          \A i \in 1..Len(rpcClaim.reply.tx.vin) :
              LET revealed == GetOp(rpcClaim.reply.tx.vin[i].scriptSig, 1).data
              IN  /\ revealed = ClaimHashOfCall(rpcClaim)
                  /\ (rpcAnn.method # "none" /\ rpcAnn.reply.kind = "tx") =>
                        ((revealed
                            = ClaimHashOfScript(rpcAnn.reply.tx.vout[1].scriptPubKey))
                         <=> (/\ GetScriptForDestination(rpcClaim.address)
                                   = GetScriptForDestination(rpcAnn.address)
                              /\ BignumFromDecimal(rpcClaim.solution).value
                                   = BignumFromDecimal(rpcAnn.solution).value))

\* A claim of two entries reveals in both inputs the hash an announcement
\* for the same address and the same negative factor committed.
C18_Witness ==
    /\ rpcAnn.method = "announcedeadpoolclaim" /\ rpcAnn.reply.kind = "tx"
    /\ rpcClaim.method # "none" /\ rpcClaim.reply.kind = "tx"
    /\ Len(rpcClaim.reply.tx.vin) = 2
    /\ rpcClaim.address = rpcAnn.address
    /\ rpcClaim.solution = <<"-", "3">> /\ rpcAnn.solution = <<"-", "3">>
    /\ \A i \in 1..2 :
          GetOp(rpcClaim.reply.tx.vin[i].scriptSig, 1).data
            = ClaimHashOfScript(rpcAnn.reply.tx.vout[1].scriptPubKey)


(***************************************************************************)
(* Claims about the writes of the deadpool index (SpecWrites).             *)
(***************************************************************************)
\* The keys of the records WriteBlock writes for the outputs of the block of
\* the chain at height h: the entry and the announcement records, and the
\* claim records of the entries.
OutputKeysOf(chain, h) ==
    LET vtx == BlockOf(chain[h + 1]).vtx
    IN  UNION { UNION { LET txout == vtx[t].vout[i]
                        IN  IF txout.type = "DEADPOOL_ENTRY"
                            THEN {<<DB_DEADPOOL_ENTRY, GetEntryNHash(txout),
                                    vtx[t].txid, i - 1>>,
                                  <<DB_DEADPOOL_CLAIMS, vtx[t].txid, i - 1,
                                    GetEntryNHash(txout)>>}
                            ELSE IF txout.type = "DEADPOOL_ANNOUNCE"
                            THEN {<<DB_DEADPOOL_ANNOUNCE,
                                    NHash([out |-> txout, nHeight |-> h]),
                                    vtx[t].txid, i - 1>>}
                            ELSE {} :
                        i \in 1..Len(vtx[t].vout) } :
                t \in 1..Len(vtx) }

\* C19: the index commits the writes of one block atomically: at no moment,
\* for a concurrent reader or after a crash in the middle of WriteBlock,
\* does the database hold some but not all of the entry, announcement and
\* claim records of the outputs of a block, such as an entry record without
\* its claim record.
C19_BlockWritesAtomic ==
    \A h \in 1..(Len(idxChain) - 1) :
       LET keys == OutputKeysOf(idxChain, h)
       IN  \/ keys \cap DOMAIN idxDb = {}
           \/ keys \subseteq DOMAIN idxDb

\* C20: when the index thread has written a block again that was written in
\* full or in part before, and then the blocks after it in order up to the
\* tip, the database is the one of writing each block of the chain once in
\* order; so it is after writing the tip twice in a row.
C20_ReplaySafe ==
    (~wbRun.running /\ wbRun.synced = Len(idxChain))
        => idxDb = wbRun.once

\* C20 witness: block 1 made an entry and block 2 claimed it, the node
\* stopped and the index started again from block 1, which resets the claim
\* record, and wrote the blocks up to the tip: the claim of block 2 is in
\* the record again.
C20_Witness ==
    /\ ~wbRun.running
    /\ wbRun.restarts = 1
    /\ wbRun.from = 1
    /\ wbRun.synced = 3
    /\ Len(idxChain) = 3
    /\ idxChain[2].txids = <<1>>
    /\ idxChain[3].txids = <<2>>
    /\ FindClaim(idxDb, [hash |-> 1, n |-> 0]).claimHeight = 2
    /\ FindClaim(idxDb, [hash |-> 1, n |-> 0]).claimTxHash = 2

(***************************************************************************)
(* Claims about amounts (SpecAmount).                                      *)
(***************************************************************************)
\* 4611686018400000000, which is 46116860184 * 10^8.
DecimalMaxMoney == [neg |-> FALSE, mag |-> <<0, 24, 94, 254, 255, 255, 255, 63>>]

\* MoneyRange has answered as 0 <= v <= 4611686018400000000 asks.
MoneyRangeAnswered ==
    amtOk # "none" =>
       ((amtOk = "true") <=>
          (~amtV.neg /\ (amtV = DecimalMaxMoney
                            \/ MagLess(amtV.mag, DecimalMaxMoney.mag))))

ListedEntriesOfOneN(array) ==
    \A i \in 1..Len(array) :
        /\ array[i] \in DOMAIN RpcCoins
        /\ RpcCoins[array[i]].type = "DEADPOOL_ENTRY"
        /\ RpcCoins[array[i]].n = RpcCoins[array[1]].n

\* push(claimHash) push(p) for the address and the solution of a call.
ScriptSigOfCall(call) ==
    LET p == Serialize(BignumFromDecimal(call.solution).value)
    IN  <<32>> \o ClaimHashOfCall(call) \o <<Len(p)>> \o p

\* C22: claimdeadpooltxs returns a transaction only if every listed outpoint
\* is an unspent coin of the coins view, is a DEADPOOL_ENTRY output and has
\* N bytes identical to those of the first listed entry, and raises an RPC
\* error otherwise; the transaction has one input per listed outpoint, in
\* the listed order, each with the scriptSig push(claimHash) push(p).
C22_BatchOfOneN ==
    rpcClaim.method = "claimdeadpooltxs" =>
        LET array == rpcClaim.inputs.array
            reply == rpcClaim.reply
        IN  /\ reply.kind = "tx" =>
                 /\ ListedEntriesOfOneN(array)
                 /\ Len(reply.tx.vin) = Len(array)
                 /\ \A i \in 1..Len(array) :
                       /\ reply.tx.vin[i].prevout = array[i]
                       /\ reply.tx.vin[i].scriptSig = ScriptSigOfCall(rpcClaim)
            /\ ~ListedEntriesOfOneN(array) => reply.kind = "error"

\* C22 witness: a claim of three listed entries of one N got its
\* transaction.
C22_Witness ==
    /\ rpcClaim.method = "claimdeadpooltxs"
    /\ Len(rpcClaim.inputs.array) = 3
    /\ rpcClaim.reply.kind = "tx"
    /\ Len(rpcClaim.reply.tx.vin) = 3


\* C27: a claim transaction built by createClaimTx has exactly one output,
\* which pays the destination script, and its value total_bounty -
\* tx_size * fee_rate is a valid amount, 0 <= value <= MAX_MONEY, for every
\* non-empty set of entries and every total bounty, bounties below the fee
\* included.
C27_ClaimOutputValid ==
    (rpcClaim.method # "none" /\ rpcClaim.reply.kind = "tx"
        /\ Len(rpcClaim.reply.tx.vin) >= 1) =>
        /\ Len(rpcClaim.reply.tx.vout) = 1
        /\ rpcClaim.reply.tx.vout[1].scriptPubKey
              = GetScriptForDestination(rpcClaim.address)
        /\ MoneyRange(rpcClaim.reply.tx.vout[1].nValue)


\* The OP_CHECKDIVVERIFY condition for N and p: N mod p = 0 and
\* 1 < p <= N / p, which for a divisor p is p * p <= N.  The first line
\* has the two decimal strings read before anything is computed from them.
CheckDiv(n, p) ==
    /\ n.neg \in BOOLEAN /\ p.neg \in BOOLEAN
    /\ IntLess(MpzSetSi(1), p)
    /\ MpzMod(n, p).value = MpzZero
    /\ IntLeq(IntMul(p, p), n)

\* The condition for the N and the solution of a call.
CheckDivOfCall(call) ==
    CheckDiv(BignumFromDecimal(call.entry_n).value,
             BignumFromDecimal(call.solution).value)

\* C26: every announcement announcedeadpoolclaim returns and every claim
\* transaction claimdeadpooltxs and claimdeadpoolid return is for a
\* solution p with N mod p = 0 and 1 < p <= N / p; p = 1, p = N, a negative
\* p and the larger of two factors get an error.
C26_SolutionSatisfiesCheckDiv ==
    /\ (rpcAnn.method # "none" /\ rpcAnn.reply.kind = "tx")
          => CheckDivOfCall(rpcAnn)
    /\ (rpcClaim.method # "none" /\ rpcClaim.reply.kind = "tx"
          /\ Len(rpcClaim.reply.tx.vin) >= 1)
          => CheckDivOfCall(rpcClaim)


\* The entry records of the id in the database whose outpoint is a coin.
UnspentEntryKeys(db, deadpoolId) ==
    { k \in DOMAIN db :
        /\ k[1] = DB_DEADPOOL_ENTRY
        /\ k[2] = deadpoolId
        /\ [hash |-> k[3], n |-> k[4]] \in DOMAIN RpcCoins }

\* The sum of the values of the entry records keys.
RECURSIVE SumOfValues(_, _)
SumOfValues(db, keys) ==
    IF keys = {} THEN MpzZero
    ELSE LET k == CHOOSE q \in keys : TRUE
         IN  IntAdd(db[k].txOut.nValue, SumOfValues(db, keys \ {k}))

\* The output value of the transaction and the fee it was reduced by.
PreFeeTotal(tx) ==
    IntAdd(tx.vout[1].nValue,
           IntMul(MpzSetSi(SerializedSize(tx.vin) + Len(tx.vout[1].scriptPubKey)
                             + 1 + 8 + 4),
                  MpzSetSi(10)))

\* C30: claimdeadpoolid builds its inputs from exactly the indexed entries of
\* the id whose outpoint is an unspent coin of the coins view, its pre-fee
\* total is the sum of the values of exactly those entries, and it raises
\* "No entries found" when the index has no entry of the id or none of them
\* is unspent.
C30_ClaimsUnspentEntriesOfId ==
    rpcClaim.method = "claimdeadpoolid" =>
        LET db      == rpcClaim.inputs.db
            unspent == UnspentEntryKeys(db, rpcClaim.inputs.deadpoolId)
            reply   == rpcClaim.reply
        IN  /\ reply.kind = "tx" =>
                 /\ Len(reply.tx.vin) = Cardinality(unspent)
                 /\ { reply.tx.vin[i].prevout : i \in 1..Len(reply.tx.vin) }
                       = { [hash |-> k[3], n |-> k[4]] : k \in unspent }
                 /\ PreFeeTotal(reply.tx) = SumOfValues(db, unspent)
            /\ (/\ unspent = {}
                /\ rpcClaim.activated /\ rpcClaim.inputs.index
                /\ IsValidDestination(rpcClaim.address)
                /\ BignumFromDecimal(rpcClaim.solution).valid)
                  => (reply.kind = "error" /\ reply.message = "No entries found")

\* C30 witness: the index has three entries of the id and one of another
\* id, one of the three is spent, and the claim spends the other two.
C30_Witness ==
    /\ rpcClaim.method = "claimdeadpoolid"
    /\ rpcClaim.inputs.index
    /\ Cardinality(DOMAIN rpcClaim.inputs.db) = 4
    /\ rpcClaim.inputs.deadpoolId = GetEntryNHash(RpcTxOuts[0])
    /\ rpcClaim.reply.kind = "tx"
    /\ Len(rpcClaim.reply.tx.vin) = 2


(***************************************************************************)
(* Claims about copies of a CScriptBignum (SpecCopy).                      *)
(***************************************************************************)

\* C28: copy-constructing a CScriptBignum yields an object equal to its
\* source, with the same integer value, the same IsValid() flag and the same
\* Serialize() bytes, and destroying the copy leaves the original usable.
C28_CopyEqualsSource ==
    /\ cpOp = "copy" =>
         /\ cpDst.ptr = "own"
         /\ cpDst.value = cpSrc.value
         /\ cpDst.valid = cpSrc.valid
         /\ Serialize(cpDst.value) = Serialize(cpSrc.value)
    /\ cpOp = "destroy" => (cpRun = "ok" /\ cpSrc.ptr = "own")


(***************************************************************************)
(* Claims about the totality of CheckProofOfWork (SpecPow).                *)
(***************************************************************************)

\* The offset check and the bitlength(N) check of CheckProofOfWork pass
\* (mpz_sizeinbase measures the absolute value of N).
PassesOffsetAndBitLength(block) ==
    LET N == gHash(block.derived, block.nBits) + block.wOffset
    IN  /\ Abs(block.wOffset) <= 16 * block.nBits
        /\ SizeInBase2(N) = block.nBits

\* C24: CheckProofOfWork is total: for every header, one whose nP1 is 0
\* included, it returns a boolean, and a header with nP1 = 0 that passes the
\* offset and bitlength(N) checks is rejected with false, no division by
\* zero being performed.
C24_CheckProofOfWorkTotal ==
    powResult # "none" =>
        /\ powResult \in {"true", "false"}
        /\ (hdr.nP1 = 0 /\ PassesOffsetAndBitLength(hdr)) => powResult = "false"


(***************************************************************************)
(* Claims about the inner loop of gHash (SpecBranch).                      *)
(***************************************************************************)

\* C23: in every iteration of gHash's inner loop the hash function is
\* selected by the popcount of the entire 256-byte buffer modulo 3 (0:
\* SHA3-512 over bytes 0..127, 2: BLAKE2b over bytes 128..255, 1: Whirlpool
\* over all 256 bytes), so that buffers with different whole-buffer
\* popcounts modulo 3 select different functions even when their first 8
\* bytes are the same.
C23_BranchByWholeBufferPopcount ==
    brIter.pc = "bottom" =>
        LET whole == popcnt(brIter.derived)
            xored == XorInto(brIter.derived,
                             PowM(brIter.a_inverse, 1, GPrime(brIter.derived)))
        IN  /\ brIter.primitive = BranchPrimitive(whole)
            /\ brIter.after = BranchHash(xored, whole)


(***************************************************************************)
(* Claims about the bytes gHash's truncation touches (SpecTrunc).          *)
(***************************************************************************)

\* C25: for every 16-bit nBits a header can carry (0..65535), gHash's
\* truncation step reads and writes only bytes 0..127 of w and its assertion
\* allBytes + 1 <= 128 holds, so that CheckProofOfWork rejects a header with
\* out-of-range nBits (0, or >= 1024) by returning false rather than aborting
\* or accessing memory outside w.
C25_TruncationWithinW ==
    tcCall.pc = "done" =>
        /\ tcCall.asserted
        /\ tcCall.accessed = {}
        /\ tcCall.outcome = "returned"


(***************************************************************************)
(* Claims about the entry and claim records of the index (SpecIndex).      *)
(***************************************************************************)

\* Every entry record of db has a claim record of its outpoint and id.
EntriesHaveClaimRecords(db) ==
    \A k \in DOMAIN db :
        k[1] = DB_DEADPOOL_ENTRY =>
            <<DB_DEADPOOL_CLAIMS, k[3], k[4], k[2]>> \in DOMAIN db

\* The value of a claim record is that of an unclaimed entry.
IsUnclaimedValue(v) ==
    /\ v.claimHeight = 0
    /\ v.claimBlockHash = ZERO
    /\ v.claimTxHash = ZERO
    /\ v.solution = <<>>

\* C29: after any sequence of complete WriteBlock calls, every entry record
\* (deadpoolId, outpoint) of the index has a claim record of the same
\* outpoint and deadpoolId, and each claim record is either unclaimed
\* (claimHeight 0, zero block hash, zero txid, empty solution) or claimed
\* with a claimHeight of at least 1 that is the height of the block whose
\* WriteBlock wrote it; a claimed record never has claimHeight 0.
C29_EntryHasClaimRecord ==
    [][/\ EntriesHaveClaimRecords(idxDb')
       /\ \A k \in DOMAIN idxDb' :
             k[1] = DB_DEADPOOL_CLAIMS =>
                \/ IsUnclaimedValue(idxDb'[k])
                \/ /\ idxDb'[k].claimHeight >= 1
                   /\ \/ k \in DOMAIN idxDb /\ idxDb[k] = idxDb'[k]
                      \/ /\ idxOp' = "connect"
                         /\ idxDb'[k].claimHeight = Len(idxChain') - 1
                         /\ idxDb'[k].claimBlockHash = Last(idxChain').hash]_vars

\* C29 witness: the index holds an unclaimed entry and a claimed one, and
\* the claimed one was claimed in a block above the tip the chain was
\* rewound to.
C29_Witness ==
    /\ idxOp = "rewind"
    /\ \E k \in DOMAIN idxDb :
          /\ k[1] = DB_DEADPOOL_CLAIMS
          /\ idxDb[k].claimHeight > Len(idxChain) - 1
    /\ \E k \in DOMAIN idxDb :
          k[1] = DB_DEADPOOL_CLAIMS /\ IsUnclaimedValue(idxDb[k])
    /\ Cardinality({ k \in DOMAIN idxDb : k[1] = DB_DEADPOOL_ENTRY }) >= 2


====
